---- MODULE Spec2Model ----
(***************************************************************************)
(* Model of the NYC-taxi ETL notebook: the schema reconciliation helper    *)
(* clean(ddf, must_haves) and the cells that call it.                      *)
(*                                                                         *)
(* Representation.                                                         *)
(*   - A column name is a sequence of one-character strings, so that       *)
(*     str.strip() and str.lower() are computed, not assumed.              *)
(*   - A cell of a column is a record [na, v]: na is the missing-value     *)
(*     marker; v is a character sequence for dtype object, a pair of      *)
(*     32-bit halves for int64 and an integer otherwise.  A float is the   *)
(*     integer number of 1/FloatUnit it holds, a timestamp the integer     *)
(*     number of its unit (ms or ns) since epoch; the integer timestamps   *)
(*     of the model fit 32 bits.                                           *)
(*   - A DataFrame is a sequence of columns [name, dtype, vals]; frames    *)
(*     live in a heap and variables hold references, so that "returns a    *)
(*     new frame" and "assigns a column in place" are different things.    *)
(***************************************************************************)
EXTENDS Integers, Sequences, FiniteSets, TLC

(***************************************************************************)
(* Bounds of the model.                                                    *)
(***************************************************************************)
MaxRows == 2

(***************************************************************************)
(* Column names of the source.                                             *)
(***************************************************************************)
pickup_datetime ==
    <<"p","i","c","k","u","p","_","d","a","t","e","t","i","m","e">>
dropoff_datetime ==
    <<"d","r","o","p","o","f","f","_","d","a","t","e","t","i","m","e">>
passenger_count ==
    <<"p","a","s","s","e","n","g","e","r","_","c","o","u","n","t">>
trip_distance ==
    <<"t","r","i","p","_","d","i","s","t","a","n","c","e">>
pickup_longitude ==
    <<"p","i","c","k","u","p","_","l","o","n","g","i","t","u","d","e">>
pickup_latitude ==
    <<"p","i","c","k","u","p","_","l","a","t","i","t","u","d","e">>
rate_code ==
    <<"r","a","t","e","_","c","o","d","e">>
dropoff_longitude ==
    <<"d","r","o","p","o","f","f","_","l","o","n","g","i","t","u","d","e">>
dropoff_latitude ==
    <<"d","r","o","p","o","f","f","_","l","a","t","i","t","u","d","e">>
fare_amount ==
    <<"f","a","r","e","_","a","m","o","u","n","t">>
tpep_pickup_datetime ==
    <<"t","p","e","p","_","p","i","c","k","u","p","_","d","a","t","e","t","i","m","e">>
tpep_dropoff_datetime ==
    <<"t","p","e","p","_","d","r","o","p","o","f","f","_","d","a","t","e","t","i","m","e">>
ratecodeid ==
    <<"r","a","t","e","c","o","d","e","i","d">>

(***************************************************************************)
(* must_haves: the dictionary of required columns and their datatypes, in  *)
(* insertion order, as <<key, dtype>> pairs.                               *)
(***************************************************************************)
must_haves ==
    << <<pickup_datetime,   "datetime64[s]">>,
       <<dropoff_datetime,  "datetime64[s]">>,
       <<passenger_count,   "int32">>,
       <<trip_distance,     "float32">>,
       <<pickup_longitude,  "float32">>,
       <<pickup_latitude,   "float32">>,
       <<rate_code,         "int32">>,
       <<dropoff_longitude, "float32">>,
       <<dropoff_latitude,  "float32">>,
       <<fare_amount,       "float32">> >>

\* keys of a Python dict given as a sequence of <<key, value>> pairs
Keys(d) ==
    { d[i][1] : i \in 1..Len(d) }

\* d[k] of such a dict
Lookup(d, k) ==
    LET i == CHOOSE j \in 1..Len(d) : d[j][1] = k IN d[i][2]

(***************************************************************************)
(* str.strip() and str.lower() on a column name.                           *)
(***************************************************************************)
Whitespace ==
    {" ", "\t"}

UpperToLower ==
    [c \in {"A","B","C","D","E","F","G","H","I","J","K","L","M",
            "N","O","P","Q","R","S","T","U","V","W","X","Y","Z"} |->
       CASE c = "A" -> "a" [] c = "B" -> "b" [] c = "C" -> "c" [] c = "D" -> "d"
         [] c = "E" -> "e" [] c = "F" -> "f" [] c = "G" -> "g" [] c = "H" -> "h"
         [] c = "I" -> "i" [] c = "J" -> "j" [] c = "K" -> "k" [] c = "L" -> "l"
         [] c = "M" -> "m" [] c = "N" -> "n" [] c = "O" -> "o" [] c = "P" -> "p"
         [] c = "Q" -> "q" [] c = "R" -> "r" [] c = "S" -> "s" [] c = "T" -> "t"
         [] c = "U" -> "u" [] c = "V" -> "v" [] c = "W" -> "w" [] c = "X" -> "x"
         [] c = "Y" -> "y" [] c = "Z" -> "z"]

lower(s) ==
    [i \in 1..Len(s) |-> IF s[i] \in DOMAIN UpperToLower THEN UpperToLower[s[i]] ELSE s[i]]

strip(s) ==
    LET keep == { i \in 1..Len(s) : s[i] \notin Whitespace }
    IN  IF keep = {} THEN <<>>
        ELSE LET lo == CHOOSE i \in keep : \A j \in keep : i <= j
                 hi == CHOOSE i \in keep : \A j \in keep : j <= i
             IN  SubSeq(s, lo, hi)

(***************************************************************************)
(* Cells, dtypes and the casts of the dataframe library that clean uses.   *)
(***************************************************************************)
\* a float cell counts eighths
FloatUnit ==
    2^3

NA(v) ==
    [na |-> TRUE, v |-> v]

Val(v) ==
    [na |-> FALSE, v |-> v]

Pow2(n) ==
    2^n

Abs(n) ==
    IF n < 0 THEN -n ELSE n

\* 'int' in str(dtype)
HasInt(dtype) ==
    dtype \in {"int64", "int32"}

\* 'float' in str(dtype)
HasFloat(dtype) ==
    dtype \in {"float64", "float32"}

\* a 64-bit integer hi * 2^32 + lo, lo its low 32 bits read as a signed number
Int64(hi, lo) ==
    [hi |-> hi, lo |-> lo]

\* astype('int32') of a 64-bit integer: its low 32 bits (two's complement wrap)
ToInt32(n) ==
    n.lo

\* least e >= 0 with a < 2^(24+e)
RECURSIVE Exp24(_, _)
Exp24(a, e) ==
    IF a < Pow2(24 + e) THEN e ELSE Exp24(a, e + 1)

\* astype('float32') of a float: round to 24 significant bits, ties to even
ToFloat32(n) ==
    LET a == Abs(n)
        e == Exp24(a, 0)
        q == a \div Pow2(e)
        r == a % Pow2(e)
        up == (2 * r > Pow2(e)) \/ (2 * r = Pow2(e) /\ q % 2 = 1)
        m == (IF up THEN q + 1 ELSE q) * Pow2(e)
    IN  IF n < 0 THEN -m ELSE m

DigitOf ==
    [c \in {"0","1","2","3","4","5","6","7","8","9"} |->
       CASE c = "0" -> 0 [] c = "1" -> 1 [] c = "2" -> 2 [] c = "3" -> 3
         [] c = "4" -> 4 [] c = "5" -> 5 [] c = "6" -> 6 [] c = "7" -> 7
         [] c = "8" -> 8 [] c = "9" -> 9]

AllDigits(s) ==
    \A i \in 1..Len(s) : s[i] \in DOMAIN DigitOf

RECURSIVE DigitsVal(_, _)
DigitsVal(s, acc) ==
    IF s = <<>> THEN acc ELSE DigitsVal(Tail(s), acc * 10 + DigitOf[Head(s)])

\* parse of an unsigned decimal text ("12", "12.5", "9.0") to [ok, v], v in
\* units of 1/FloatUnit
ParseUnsigned(s) ==
    LET dots == { i \in 1..Len(s) : s[i] = "." }
    IN  IF dots = {}
        THEN IF Len(s) > 0 /\ AllDigits(s)
             THEN [ok |-> TRUE, v |-> DigitsVal(s, 0) * FloatUnit]
             ELSE [ok |-> FALSE, v |-> 0]
        ELSE IF Cardinality(dots) > 1
        THEN [ok |-> FALSE, v |-> 0]
        ELSE LET p == CHOOSE i \in dots : TRUE
                 ip == SubSeq(s, 1, p - 1)
                 fp == SubSeq(s, p + 1, Len(s))
                 den == 10^Len(fp)
             IN  IF Len(s) > 1 /\ AllDigits(ip) /\ AllDigits(fp)
                 THEN [ok |-> TRUE,
                       v |-> DigitsVal(ip, 0) * FloatUnit
                             + ((2 * DigitsVal(fp, 0) * FloatUnit + den) \div (2 * den))]
                 ELSE [ok |-> FALSE, v |-> 0]

\* parse of a numeric text with optional sign
ParseFloat(s) ==
    IF s # <<>> /\ Head(s) = "-"
    THEN LET r == ParseUnsigned(Tail(s)) IN [ok |-> r.ok, v |-> -r.v]
    ELSE ParseUnsigned(s)

\* parse of a time text "hh:mm:ss" (the time-of-day part of a CSV timestamp on
\* the epoch day) to [ok, v], v in milliseconds
ParseTimestamp(s) ==
    IF /\ Len(s) = 8
       /\ s[3] = ":" /\ s[6] = ":"
       /\ AllDigits(SubSeq(s, 1, 2)) /\ AllDigits(SubSeq(s, 4, 5)) /\ AllDigits(SubSeq(s, 7, 8))
       /\ DigitsVal(SubSeq(s, 1, 2), 0) < 24
       /\ DigitsVal(SubSeq(s, 4, 5), 0) < 60
       /\ DigitsVal(SubSeq(s, 7, 8), 0) < 60
    THEN [ok |-> TRUE,
          v |-> ((DigitsVal(SubSeq(s, 1, 2), 0) * 60 + DigitsVal(SubSeq(s, 4, 5), 0)) * 60
                 + DigitsVal(SubSeq(s, 7, 8), 0)) * 1000]
    ELSE [ok |-> FALSE, v |-> 0]

\* floor division, also for negative numerators
FloorDiv(a, b) ==
    IF a >= 0 THEN a \div b ELSE -((-a + b - 1) \div b)

\* truncation toward zero
TruncDiv(a, b) ==
    IF a >= 0 THEN a \div b ELSE -((-a) \div b)

\* a cast that takes every timestamp it is given for nanoseconds
CastCell_from_ns(v, from, to) ==
    CASE to = "datetime64[ms]" ->
           ( CASE from = "object" -> ParseTimestamp(v)
               [] HasFloat(from) -> [ok |-> TRUE, v |-> TruncDiv(v, FloatUnit)]
               [] from = "int64" -> [ok |-> TRUE, v |-> v.lo]
               [] OTHER -> [ok |-> TRUE, v |-> FloorDiv(v, 1000000)] )
      [] to = "int32" ->
           ( CASE from = "int64" -> [ok |-> TRUE, v |-> ToInt32(v)]
               [] OTHER -> [ok |-> TRUE, v |-> v] )
      [] to = "float32" ->
           ( CASE from = "object" ->
                    LET r == ParseFloat(v) IN [ok |-> r.ok, v |-> ToFloat32(r.v)]
               [] OTHER -> [ok |-> TRUE, v |-> ToFloat32(v)] )

\* the cast of one present cell: [ok, v]
CastCell(v, from, to) ==
    CASE to = "datetime64[ms]" ->
           ( CASE from = "object" -> ParseTimestamp(v)
               [] from = "datetime64[ns]" -> [ok |-> TRUE, v |-> FloorDiv(v, 1000000)]
               [] HasFloat(from) -> [ok |-> TRUE, v |-> TruncDiv(v, FloatUnit)]
               [] from = "int64" -> [ok |-> TRUE, v |-> v.lo]
               [] OTHER -> [ok |-> TRUE, v |-> v] )
      [] to = "int32" ->
           ( CASE from = "int64" -> [ok |-> TRUE, v |-> ToInt32(v)]
               [] OTHER -> [ok |-> TRUE, v |-> v] )
      [] to = "float32" ->
           ( CASE from = "object" ->
                    LET r == ParseFloat(v) IN [ok |-> r.ok, v |-> ToFloat32(r.v)]
               [] OTHER -> [ok |-> TRUE, v |-> ToFloat32(v)] )

\* Series.astype(to): [ok, col]; a missing cell stays missing, a cell that
\* cannot be converted makes the cast raise
astype(col, to) ==
    LET cast == [i \in 1..Len(col.vals) |->
                   IF col.vals[i].na THEN [ok |-> TRUE, v |-> 0]
                   ELSE CastCell(col.vals[i].v, col.dtype, to)]
    IN  [ok  |-> \A i \in 1..Len(cast) : cast[i].ok,
         col |-> [name |-> col.name, dtype |-> to,
                  vals |-> [i \in 1..Len(cast) |->
                              IF col.vals[i].na THEN NA(0) ELSE Val(cast[i].v)]]]

\* the scalar -1 as a cell of the given dtype
MinusOne(dtype) ==
    IF HasFloat(dtype) THEN -FloatUnit ELSE -1

\* a fillna whose result is thrown away
fillna_discarded(col) ==
    col

\* a dropna in place of the fill: the rows with a missing entry are left out
fillna_dropna(col) ==
    [col EXCEPT !.vals = SelectSeq(@, LAMBDA c : ~c.na)]

\* Series.fillna(-1) of a non-text column
fillna(col) ==
    [col EXCEPT !.vals = [i \in 1..Len(col.vals) |->
                            IF col.vals[i].na THEN Val(MinusOne(col.dtype)) ELSE col.vals[i]]]

\* a text fill with '0' in place of '-1'
str_fillna_zero(col) ==
    [col EXCEPT !.vals = [i \in 1..Len(col.vals) |->
                            IF col.vals[i].na THEN Val(<<"0">>) ELSE col.vals[i]]]

\* Series.str.fillna('-1') of a text column
str_fillna(col) ==
    [col EXCEPT !.vals = [i \in 1..Len(col.vals) |->
                            IF col.vals[i].na THEN Val(<<"-", "1">>) ELSE col.vals[i]]]

(***************************************************************************)
(* DataFrames: a sequence of columns, each [name, dtype, vals].            *)
(***************************************************************************)
\* ddf.columns
ColumnNames(frame) ==
    [i \in 1..Len(frame) |-> frame[i].name]

NameSet(frame) ==
    { frame[i].name : i \in 1..Len(frame) }

\* ddf[name], for a name the frame has
GetItem(frame, name) ==
    frame[CHOOSE i \in 1..Len(frame) : frame[i].name = name]

\* ddf[name] = col: replaces the column of that name or appends a new one
SetItem(frame, name, col) ==
    LET c == [col EXCEPT !.name = name]
    IN  IF name \in NameSet(frame)
        THEN [i \in 1..Len(frame) |-> IF frame[i].name = name THEN c ELSE frame[i]]
        ELSE Append(frame, c)

\* the columns of ddf.drop(columns=name)
DropColumn(frame, name) ==
    SelectSeq(frame, LAMBDA c : c.name # name)

\* str(n) for a small positive number
Str(n) ==
    LET d == <<"0","1","2","3","4","5","6","7","8","9">>
    IN  IF n < 10 THEN <<d[n + 1]>> ELSE <<d[(n \div 10) + 1], d[(n % 10) + 1]>>

\* the new name of a column under a columns= mapping
Renamed(m, name) ==
    IF name \in DOMAIN m THEN m[name] ELSE name

\* rename of a library that keeps every column and makes a clashing new name
\* unique with a numeric postfix; a column the mapping does not name is stored
\* under its own name
RECURSIVE RenamePostfix(_, _, _, _, _)
RenamePostfix(frame, m, i, out, postfix) ==
    IF i > Len(frame) THEN out
    ELSE LET key == frame[i].name
         IN  IF key \in DOMAIN m
             THEN IF m[key] \in NameSet(out)
                  THEN RenamePostfix(frame, m, i + 1,
                                     SetItem(out, m[key] \o <<"_">> \o Str(postfix), frame[i]),
                                     postfix + 1)
                  ELSE RenamePostfix(frame, m, i + 1, SetItem(out, m[key], frame[i]), postfix)
             ELSE RenamePostfix(frame, m, i + 1, SetItem(out, key, frame[i]), postfix)

\* the library versions differ on a rename that makes two names equal: one
\* refuses it, one makes the later name unique
DupPolicies ==
    {"raise", "postfix"}

\* DataFrame.rename(columns=m): [ok, frame], a new frame
Rename(frame, m, policy) ==
    LET new == [i \in 1..Len(frame) |-> [frame[i] EXCEPT !.name = Renamed(m, @)]]
    IN  IF Cardinality(NameSet(new)) = Len(new)
        THEN [ok |-> TRUE, frame |-> new]
        ELSE IF policy = "raise"
        THEN [ok |-> FALSE, frame |-> frame]
        ELSE [ok |-> TRUE, frame |-> RenamePostfix(frame, m, 1, <<>>, 1)]

(***************************************************************************)
(* clean(ddf, must_haves).  The state of a call is [heap, ddf, status]:    *)
(* ddf is the local variable, a reference into the heap; status is "ok"    *)
(* while no exception has been raised.                                     *)
(***************************************************************************)
\* F(x), with x evaluated once
Bind(x, F(_)) ==
    CHOOSE r \in { F(v) : v \in {x} } : TRUE

\* a rename made in place (inplace=True) on the frame the caller passed
RebindRenamed_inplace(st, m, policy) ==
    IF st.status # "ok" THEN st
    ELSE Bind(Rename(st.heap[st.ddf], m, policy),
              LAMBDA r :
                IF r.ok
                THEN [st EXCEPT !.heap[st.ddf] = r.frame]
                ELSE [st EXCEPT !.status = "DuplicateNames"])

\* ddf = ddf.rename(columns=m): binds ddf to a new frame
RebindRenamed(st, m, policy) ==
    IF st.status # "ok" THEN st
    ELSE Bind(Rename(st.heap[st.ddf], m, policy),
              LAMBDA r :
                IF r.ok
                THEN [heap |-> Append(st.heap, r.frame), ddf |-> Len(st.heap) + 1,
                      status |-> "ok"]
                ELSE [st EXCEPT !.status = "DuplicateNames"])

\* a drop whose result is not bound to ddf
RebindDropped_unbound(st, col) ==
    st

\* ddf = ddf.drop(columns=col): binds ddf to a new frame
RebindDropped(st, col) ==
    [heap |-> Append(st.heap, DropColumn(st.heap[st.ddf], col)),
     ddf |-> Len(st.heap) + 1, status |-> "ok"]

\* ddf[name] = col: assigns into the frame ddf refers to
AssignColumn(st, name, col) ==
    [st EXCEPT !.heap[st.ddf] = SetItem(@, name, col)]

\* a mapping that lower-cases the names and leaves their padding
NormalizeMap_lower_only(frame) ==
    [col \in NameSet(frame) |-> lower(col)]

\* {col: col.strip().lower() for col in list(ddf.columns)}
NormalizeMap(frame) ==
    [col \in NameSet(frame) |-> lower(strip(col))]

\* the rename table without the RateCodeID alias
AliasMap_without_ratecodeid ==
    (tpep_pickup_datetime :> pickup_datetime)
      @@ (tpep_dropoff_datetime :> dropoff_datetime)

\* the rename table of known aliases
AliasMap ==
    (tpep_pickup_datetime :> pickup_datetime)
      @@ (tpep_dropoff_datetime :> dropoff_datetime)
      @@ (ratecodeid :> rate_code)

\* ddf[name] = ddf[name].astype('datetime64[ms]')
CastTimestamp(st, name) ==
    IF st.status # "ok" THEN st
    ELSE IF name \notin NameSet(st.heap[st.ddf])
    THEN [st EXCEPT !.status = "KeyError"]
    ELSE Bind(astype(GetItem(st.heap[st.ddf], name), "datetime64[ms]"),
              LAMBDA r :
                IF r.ok THEN AssignColumn(st, name, r.col)
                ELSE [st EXCEPT !.status = "ValueError"])

\* a string branch that goes on with whatever the cast made of the text
CoerceObject_unchecked(st, col) ==
    Bind(AssignColumn(st, col, str_fillna(GetItem(st.heap[st.ddf], col))),
         LAMBDA s1 :
           Bind(astype(GetItem(s1.heap[s1.ddf], col), "float32"),
                LAMBDA r : AssignColumn(s1, col, r.col)))

\* the branch of the loop for a column read as a string
CoerceObject(st, col) ==
    Bind(AssignColumn(st, col, str_fillna(GetItem(st.heap[st.ddf], col))),
         LAMBDA s1 :
           Bind(astype(GetItem(s1.heap[s1.ddf], col), "float32"),
                LAMBDA r :
                  IF r.ok THEN AssignColumn(s1, col, r.col)
                  ELSE [s1 EXCEPT !.status = "ValueError"]))

\* the branch of the loop for any other column
CoerceNumeric(st, col) ==
    Bind(IF HasInt(GetItem(st.heap[st.ddf], col).dtype)
         THEN AssignColumn(st, col, astype(GetItem(st.heap[st.ddf], col), "int32").col)
         ELSE st,
         LAMBDA s1 :
           Bind(IF HasFloat(GetItem(s1.heap[s1.ddf], col).dtype)
                THEN AssignColumn(s1, col, astype(GetItem(s1.heap[s1.ddf], col), "float32").col)
                ELSE s1,
                LAMBDA s2 : AssignColumn(s2, col, fillna(GetItem(s2.heap[s2.ddf], col)))))

\* one pass of the body of "for col in ddf.columns"
LoopBody(st, col, mh) ==
    IF col \notin Keys(mh) THEN RebindDropped(st, col)
    ELSE IF GetItem(st.heap[st.ddf], col).dtype = "object" THEN CoerceObject(st, col)
    ELSE CoerceNumeric(st, col)

RECURSIVE CleanLoop_live(_, _, _, _)
RECURSIVE CleanLoop(_, _, _, _)
\* a loop over the columns ddf has when each round starts: after a drop the
\* column that moved into the place of the dropped one is passed over
CleanLoop_live(st, cols, i, mh) ==
    IF st.status # "ok" \/ i > Len(st.heap[st.ddf]) THEN st
    ELSE Bind(LoopBody(st, ColumnNames(st.heap[st.ddf])[i], mh),
              LAMBDA s : CleanLoop_live(s, cols, i + 1, mh))

\* the loop over cols, the column index taken when the loop starts
CleanLoop(st, cols, i, mh) ==
    IF st.status # "ok" \/ i > Len(cols) THEN st
    ELSE Bind(LoopBody(st, cols[i], mh), LAMBDA s : CleanLoop(s, cols, i + 1, mh))

\* a clean that resolves the aliases before it normalizes the names
clean_alias_first(heap, ref, mh, policy) ==
    Bind(RebindRenamed([heap |-> heap, ddf |-> ref, status |-> "ok"], AliasMap, policy),
    LAMBDA s1 : Bind(RebindRenamed(s1, NormalizeMap(s1.heap[s1.ddf]), policy),
    LAMBDA s2 : Bind(CastTimestamp(s2, pickup_datetime),
    LAMBDA s3 : Bind(CastTimestamp(s3, dropoff_datetime),
    LAMBDA s4 : IF s4.status # "ok" THEN s4
                ELSE CleanLoop(s4, ColumnNames(s4.heap[s4.ddf]), 1, mh)))))

\* clean(ddf, must_haves) called with ddf = ref: the heap it leaves, the frame
\* it returns (ddf) and whether it returned ("ok") or raised
clean(heap, ref, mh, policy) ==
    Bind(RebindRenamed([heap |-> heap, ddf |-> ref, status |-> "ok"],
                       NormalizeMap(heap[ref]), policy),
    LAMBDA s1 : Bind(RebindRenamed(s1, AliasMap, policy),
    LAMBDA s2 : Bind(CastTimestamp(s2, pickup_datetime),
    LAMBDA s3 : Bind(CastTimestamp(s3, dropoff_datetime),
    LAMBDA s4 : IF s4.status # "ok" THEN s4
                ELSE CleanLoop(s4, ColumnNames(s4.heap[s4.ddf]), 1, mh)))))

(***************************************************************************)
(* The raw batches that read_csv hands to clean.                           *)
(***************************************************************************)
raw_RateCodeID ==
    <<"R","a","t","e","C","o","d","e","I","D">>
raw_RatecodeID ==
    <<"R","a","t","e","c","o","d","e","I","D">>
raw_store_and_fwd_flag ==
    <<" ","s","t","o","r","e","_","a","n","d","_","f","w","d","_","f","l","a","g">>

\* a name with the first letter of each word in upper case
Title(s) ==
    [i \in 1..Len(s) |->
       IF (i = 1 \/ s[i - 1] = "_") /\ (\E u \in DOMAIN UpperToLower : UpperToLower[u] = s[i])
       THEN CHOOSE u \in DOMAIN UpperToLower : UpperToLower[u] = s[i]
       ELSE s[i]]

\* the known aliases of a canonical name
AliasesOf(c) ==
    { a \in DOMAIN AliasMap : AliasMap[a] = c }

\* the spellings under which a CSV header may carry a name
Decorated(n) ==
    {n, <<" ">> \o n, Title(n) \o <<" ">>}

Spellings(c) ==
    Decorated(c)
      \cup UNION { Decorated(a) : a \in AliasesOf(c) }
      \cup (IF c = rate_code THEN {raw_RateCodeID, raw_RatecodeID} ELSE {})

\* the dtypes read_csv (or an earlier clean) gives a column
InputDtypes ==
    {"object", "int64", "float64", "datetime64[ns]"}

IsTimestampName(c) ==
    c \in {pickup_datetime, dropoff_datetime}

text_12_5 ==
    <<"1","2",".","5">>
text_12_5_3 ==
    <<"1","2",".","5",".","3">>
text_00_00_07 ==
    <<"0","0",":","0","0",":","0","7">>
text_00_10_00 ==
    <<"0","0",":","1","0",":","0","0">>

\* the cells a column of the given dtype may hold: a missing entry, an
\* ordinary value and a value at the edge of the conversion clean applies
CellsOf(c, dtype) ==
    CASE dtype = "object" ->
           IF IsTimestampName(c)
           THEN {NA(<<>>), Val(text_00_00_07), Val(text_12_5_3)}
           ELSE {NA(<<>>), Val(text_12_5), Val(text_12_5_3)}
      [] dtype = "int64" -> {NA(Int64(0, 0)), Val(Int64(0, 3)), Val(Int64(1, 5))}
      [] dtype = "float64" -> {NA(0), Val(100), Val(134217736)}
      [] dtype = "datetime64[ns]" -> {NA(0), Val(7000000), Val(1500000)}

\* all columns of n rows with the given name and dtype
RECURSIVE ValsOf(_, _, _)
ValsOf(c, dtype, n) ==
    IF n = 0 THEN {<<>>}
    ELSE { Append(v, x) : v \in ValsOf(c, dtype, n - 1), x \in CellsOf(c, dtype) }

\* the dtype read_csv infers for a column of the taxi files
DefaultDtype(c) ==
    IF IsTimestampName(c) THEN "object"
    ELSE IF Lookup(must_haves, c) = "int32" THEN "int64" ELSE "float64"

\* an ordinary column of the taxi files, n rows
DefaultColumn(c, name, n) ==
    [name  |-> name,
     dtype |-> DefaultDtype(c),
     vals  |-> [i \in 1..n |->
                  IF c = pickup_datetime THEN Val(text_00_00_07)
                  ELSE IF c = dropoff_datetime THEN Val(text_00_10_00)
                  ELSE IF DefaultDtype(c) = "int64" THEN Val(Int64(0, i))
                  ELSE Val(100 + FloatUnit * i)]]

\* the header spelling of a canonical column in the files of a year: 2014 has
\* a space before each name, 2015 the tpep_ and RateCodeID aliases
Vintages ==
    {2014, 2015}

VintageName(year, c) ==
    IF year = 2014 THEN <<" ">> \o c
    ELSE IF c = pickup_datetime THEN tpep_pickup_datetime
    ELSE IF c = dropoff_datetime THEN tpep_dropoff_datetime
    ELSE IF c = rate_code THEN raw_RateCodeID
    ELSE c

\* columns a file carries besides the required ones: a text flag that clean
\* does not need, and a second spelling of a required column
Extras ==
    {"none", "flag", "fare_again", "ratecode_again"}

WithExtra(frame, extra, n) ==
    CASE extra = "none" -> frame
      [] extra = "flag" ->
           <<[name |-> raw_store_and_fwd_flag, dtype |-> "object",
              vals |-> [i \in 1..n |-> IF i = 1 THEN Val(<<"N">>) ELSE NA(<<>>)]]>> \o frame
      [] extra = "fare_again" ->
           Append(frame, [name |-> Title(fare_amount) \o <<" ">>, dtype |-> "float64",
                          vals |-> [i \in 1..n |-> Val(72)]])
      [] extra = "ratecode_again" ->
           <<[name |-> raw_RatecodeID, dtype |-> "object",
              vals |-> [i \in 1..n |-> Val(text_12_5)]]>> \o frame

\* the required columns of a file of the year, the column f replaced by col
\* (or left out when col is <<>>)
BaseFrame(year, f, col, n) ==
    LET all == [i \in 1..Len(must_haves) |->
                  LET c == must_haves[i][1]
                  IN  IF c = f THEN col ELSE <<DefaultColumn(c, VintageName(year, c), n)>>]
        Flat[i \in 0..Len(all)] == IF i = 0 THEN <<>> ELSE Flat[i - 1] \o all[i]
    IN  Flat[Len(all)]

\* the ways the column f of a file may come: missing, or spelled and filled
\* in any way with the given dtype
FocusColumns(f, dt) ==
    {<<>>} \cup { <<[name |-> sp, dtype |-> dt, vals |-> vs]>> :
                    sp \in Spellings(f), vs \in ValsOf(f, dt, MaxRows) }

\* a raw batch: a file of some year in which the column f comes as col, with
\* or without an extra column
RawBatch(year, f, col, extra) ==
    WithExtra(BaseFrame(year, f, col, MaxRows), extra, MaxRows)

(***************************************************************************)
(* Scenario A of the specification: a ColumnSpec that requires only        *)
(* pickup_datetime and passenger_count, and batches for it.                *)
(***************************************************************************)
ScenarioA_ColumnSpec ==
    << <<pickup_datetime, "datetime64[s]">>, <<passenger_count, "int32">> >>

ScenarioA_Batch(pv, dt, cv, more) ==
    LET two == << [name |-> Title(tpep_pickup_datetime) \o <<" ">>,
                   dtype |-> "object", vals |-> pv],
                  [name |-> passenger_count, dtype |-> dt, vals |-> cv] >>
    IN  IF more THEN Append(two, DefaultColumn(dropoff_datetime, dropoff_datetime, MaxRows))
        ELSE two

(***************************************************************************)
(* State.                                                                  *)
(***************************************************************************)
VARIABLES
    heap,        \* the DataFrames alive, by reference (1..Len(heap))
    raw,         \* the caller's raw batch (a reference)
    colspec,     \* the must_haves argument of the calls
    dup_policy,  \* what the installed library does on clashing names
    out1,        \* outcome of clean(raw): [status, ref]
    out2,        \* outcome of clean applied to the frame out1 refers to
    passed,      \* the argument of the latest call: its reference and the
                 \* frame it held when the call was made
    pc,          \* "read", "cleaned", "recleaned"; "workers", "concatenated";
                 \* "filtered"; "features", "X_train_rows", "Y_train", "trained",
                 \* "split", "dropped", "Y_test", "X_test"
    parts,       \* the partitions handed to the workers (references)
    task,        \* per partition, the call of clean a worker is running
    slots,       \* per partition, the outcome the scheduler holds for it
    taxi_df,     \* the partitions of the concatenated DataFrame
    X_test,      \* the test set: [status, parts]
    X_train,     \* the training set: [status, parts]
    Y_train,     \* the target of the training set: [status, parts]
    Y_test,      \* the target of the test set: [status, parts]
    bucket,      \* the CSV files on disk, by year: a list of [name, ref]
    dfs,         \* df_2014, df_2015, df_2016: the partitions read (references)
    months,      \* the list months
    valid_files, \* the list valid_files
    runs,        \* per partition of taxi_df, how often its clean task has run
    df,          \* the columns of the DataFrame of the regressions
    feature_combinations, \* the list feature_combinations
    results,     \* the list of delayed calls of fit_ols: [key, feature_cols]
    computed,    \* per delayed call, what a worker returned for it
    res          \* the list dask.compute returned

vars ==
    <<heap, raw, colspec, dup_policy, out1, out2, passed, pc, parts, task, slots, taxi_df,
      X_test, X_train, Y_train, Y_test, bucket, dfs, months, valid_files, runs,
      df, feature_combinations, results, computed, res>>

\* the reading of the files, untouched by everything but the loading
loading ==
    <<bucket, dfs, months, valid_files, runs>>

\* the regressions of the introduction to Dask, untouched by the taxi notebook
regressions ==
    <<df, feature_combinations, results, computed, res>>

\* no regression has been set up
NoRegressions ==
    /\ df = <<>>
    /\ feature_combinations = <<>>
    /\ results = <<>>
    /\ computed = <<>>
    /\ res = <<>>

\* the data sets split off taxi_df, untouched until the split
splits ==
    <<X_test, X_train, Y_train, Y_test>>

\* the state of the cluster, untouched by a call made in the client
cluster ==
    <<parts, task, slots, taxi_df>>

NoResult ==
    [status |-> "none", ref |-> 0]

\* no test set yet
NoSplit ==
    [status |-> "none", parts |-> <<>>]

\* the frames still referenced after a call, in the order of their references
Collect(h, refs) ==
    LET live == { r \in refs : r # 0 }
        at(i) == CHOOSE r \in live : Cardinality({ x \in live : x <= r }) = i
    IN  [i \in 1..Cardinality(live) |-> h[at(i)]]

\* the reference of a live frame after Collect
Moved(refs, r) ==
    IF r = 0 THEN 0 ELSE Cardinality({ x \in refs : x # 0 /\ x <= r })

\* the reference a call returns: none when it raised
Returned(st) ==
    IF st.status = "ok" THEN st.ddf ELSE 0

\* a column name with its whitespace and case removed and its alias resolved
Resolved(name) ==
    Renamed(AliasMap, lower(strip(name)))

\* two columns of the frame come to the same name
Clashes(frame) ==
    Cardinality({ Resolved(frame[i].name) : i \in 1..Len(frame) }) # Len(frame)

\* the library's policy on clashing names is observable only when names clash
InitWith(mh) ==
    /\ raw = 1
    /\ colspec = mh
    /\ dup_policy \in IF Clashes(heap[1]) THEN DupPolicies ELSE {"raise"}
    /\ out1 = NoResult
    /\ out2 = NoResult
    /\ passed = [ref |-> 0, frame |-> <<>>]
    /\ pc = "read"
    /\ parts = <<>>
    /\ task = <<>>
    /\ slots = <<>>
    /\ taxi_df = <<>>
    /\ X_test = NoSplit
    /\ X_train = NoSplit
    /\ Y_train = NoSplit
    /\ Y_test = NoSplit
    /\ bucket = <<>>
    /\ dfs = <<>>
    /\ months = <<>>
    /\ valid_files = <<>>
    /\ runs = <<>>
    /\ NoRegressions

\* the notebook: partitions of the yearly files, cleaned against must_haves
Init ==
    /\ \E year \in Vintages, f \in Keys(must_haves), extra \in Extras, dt \in InputDtypes :
         \E col \in FocusColumns(f, dt) :
           heap = <<RawBatch(year, f, col, extra)>>
    /\ InitWith(must_haves)

\* df.map_partitions(clean, must_haves, meta=must_haves) on one partition
map_partitions_clean ==
    /\ pc = "read"
    /\ \E st \in {clean(heap, raw, colspec, dup_policy)} :
         LET refs == {raw, Returned(st)}
         IN  /\ heap' = Collect(st.heap, refs)
             /\ out1' = [status |-> st.status, ref |-> Moved(refs, Returned(st))]
    /\ passed' = [ref |-> raw, frame |-> heap[raw]]
    /\ pc' = "cleaned"
    /\ UNCHANGED <<raw, colspec, dup_policy, out2, cluster, splits, loading, regressions>>

\* clean applied to its own output, re-exposed as a raw batch
clean_again ==
    /\ pc = "cleaned"
    /\ out1.status = "ok"
    /\ \E st \in {clean(heap, out1.ref, colspec, dup_policy)} :
         LET refs == {raw, out1.ref, Returned(st)}
         IN  /\ heap' = Collect(st.heap, refs)
             /\ out2' = [status |-> st.status, ref |-> Moved(refs, Returned(st))]
    /\ passed' = [ref |-> out1.ref, frame |-> heap[out1.ref]]
    /\ pc' = "recleaned"
    /\ UNCHANGED <<raw, colspec, dup_policy, out1, cluster, splits, loading, regressions>>

Next ==
    \/ map_partitions_clean
    \/ clean_again

Spec ==
    Init /\ [][Next]_vars

\* clean called with the ColumnSpec of Scenario A
InitA ==
    /\ \E dt \in InputDtypes, more \in BOOLEAN :
         \E pv \in ValsOf(pickup_datetime, "object", MaxRows),
            cv \in ValsOf(passenger_count, dt, MaxRows) :
           heap = <<ScenarioA_Batch(pv, dt, cv, more)>>
    /\ InitWith(ScenarioA_ColumnSpec)

SpecA ==
    InitA /\ [][Next]_vars

(***************************************************************************)
(* Batches in which one numeric column was read as text (a CSV column      *)
(* whose first rows gave read_csv no number to infer a dtype from).        *)
(***************************************************************************)
TextRows ==
    3

text_9_0 ==
    <<"9",".","0">>
text_minus_1 ==
    <<"-","1">>
text_16777217 ==
    <<"1","6","7","7","7","2","1","7">>

\* the entries of a numeric column read as text: missing, ordinary numbers,
\* the number -1 and a number float32 cannot hold exactly
TextCells ==
    {NA(<<>>), Val(text_12_5), Val(text_9_0), Val(text_minus_1), Val(text_16777217)}

RECURSIVE TextVals(_)
TextVals(n) ==
    IF n = 0 THEN {<<>>}
    ELSE { Append(v, x) : v \in TextVals(n - 1), x \in TextCells }

\* the columns of the files that may come as text
TextColumns ==
    {fare_amount, passenger_count}

InitText ==
    /\ \E year \in Vintages, f \in TextColumns, vs \in TextVals(TextRows) :
         heap = <<BaseFrame(year, f,
                            <<[name |-> VintageName(year, f), dtype |-> "object", vals |-> vs]>>,
                            TextRows)>>
    /\ InitWith(must_haves)

SpecText ==
    InitText /\ [][Next]_vars

(***************************************************************************)
(* Batches whose aliased columns come in any casing and padding of the     *)
(* alias (the 2015 files spell the rate code RateCodeID or RatecodeID).    *)
(***************************************************************************)
\* a name in the casings and paddings a CSV header may give it
Variants(n) ==
    {n, <<" ">> \o n, n \o <<" ">>, <<" ">> \o n \o <<" ">>, Title(n), <<" ">> \o Title(n) \o <<" ">>}

\* the spellings of the alias of a canonical column
AliasVariants(c) ==
    UNION { Variants(a) : a \in AliasesOf(c) }
      \cup (IF c = rate_code
            THEN {raw_RateCodeID, raw_RatecodeID, <<" ">> \o raw_RateCodeID \o <<" ">>}
            ELSE {})

\* a file whose three aliased columns are spelled p, d and r
AliasedBatch(p, d, r) ==
    [i \in 1..Len(must_haves) |->
       LET c == must_haves[i][1]
       IN  DefaultColumn(c, IF c = pickup_datetime THEN p
                            ELSE IF c = dropoff_datetime THEN d
                            ELSE IF c = rate_code THEN r
                            ELSE c,
                         MaxRows)]

InitNames ==
    /\ \E p \in AliasVariants(pickup_datetime), d \in AliasVariants(dropoff_datetime),
          r \in AliasVariants(rate_code) :
         heap = <<AliasedBatch(p, d, r)>>
    /\ InitWith(must_haves)

SpecNames ==
    InitNames /\ [][Next]_vars

(***************************************************************************)
(* map_partitions on the cluster: each partition is a task that some       *)
(* worker runs, statement by statement, beside the other tasks; the        *)
(* scheduler keeps each task's outcome under the partition's index, and    *)
(* concat lists the partitions of its arguments in order.                  *)
(***************************************************************************)
\* a partition of the files of a year, its fares telling the partitions apart
PartitionBatch(year, extra, k) ==
    WithExtra(BaseFrame(year, fare_amount,
                        <<[name  |-> VintageName(year, fare_amount),
                           dtype |-> "float64",
                           vals  |-> [r \in 1..MaxRows |-> Val(FloatUnit * (10 * k + r))]]>>,
                        MaxRows),
              extra, MaxRows)

\* the extra columns a partition may carry
PartitionExtras ==
    {"none", "flag", "ratecode_again"}

\* a task that has not started: [pc, ddf, status, cols, i]
NewTask(ref) ==
    [pc |-> "start", ddf |-> ref, status |-> "ok", cols |-> <<>>, i |-> 1]

InitPar ==
    /\ \E e1 \in PartitionExtras, e2 \in PartitionExtras :
         heap = <<PartitionBatch(2014, e1, 1), PartitionBatch(2015, e2, 2)>>
    /\ parts = <<1, 2>>
    /\ task = [k \in 1..Len(parts) |-> NewTask(parts[k])]
    /\ slots = [k \in 1..Len(parts) |-> NoResult]
    /\ taxi_df = <<>>
    /\ X_test = NoSplit
    /\ X_train = NoSplit
    /\ Y_train = NoSplit
    /\ Y_test = NoSplit
    /\ bucket = <<>>
    /\ dfs = <<>>
    /\ months = <<>>
    /\ valid_files = <<>>
    /\ runs = <<>>
    /\ NoRegressions
    /\ raw = 0
    /\ colspec = must_haves
    /\ dup_policy \in IF \E r \in 1..Len(heap) : Clashes(heap[r]) THEN DupPolicies ELSE {"raise"}
    /\ out1 = NoResult
    /\ out2 = NoResult
    /\ passed = [ref |-> 0, frame |-> <<>>]
    /\ pc = "workers"

\* the call state of task k over the shared memory
CallState(k) ==
    [heap |-> heap, ddf |-> task[k].ddf, status |-> task[k].status]

\* task k has run a statement that left st, and stands at pc2
Advance(k, st, pc2) ==
    /\ heap' = st.heap
    /\ task' = [task EXCEPT ![k] = [@ EXCEPT !.ddf = st.ddf, !.status = st.status,
                                              !.pc = IF st.status = "ok" THEN pc2 ELSE "raised"]]
    /\ UNCHANGED <<raw, colspec, dup_policy, out1, out2, passed, pc, parts, slots, taxi_df, splits, loading, regressions>>

\* lines 115-116
worker_normalize(k) ==
    /\ task[k].pc = "start"
    /\ \E st \in {RebindRenamed(CallState(k), NormalizeMap(heap[task[k].ddf]), dup_policy)} :
         Advance(k, st, "normalized")

\* lines 118-122
worker_alias(k) ==
    /\ task[k].pc = "normalized"
    /\ \E st \in {RebindRenamed(CallState(k), AliasMap, dup_policy)} :
         Advance(k, st, "aliased")

\* line 124
worker_cast_pickup(k) ==
    /\ task[k].pc = "aliased"
    /\ \E st \in {CastTimestamp(CallState(k), pickup_datetime)} :
         Advance(k, st, "pickup_cast")

\* line 125, and the evaluation of ddf.columns at the head of the loop
worker_cast_dropoff(k) ==
    /\ task[k].pc = "pickup_cast"
    /\ \E st \in {CastTimestamp(CallState(k), dropoff_datetime)} :
         /\ heap' = st.heap
         /\ task' = [task EXCEPT ![k] =
                        [pc |-> IF st.status = "ok" THEN "loop" ELSE "raised",
                         ddf |-> st.ddf, status |-> st.status,
                         cols |-> ColumnNames(st.heap[st.ddf]), i |-> 1]]
    /\ UNCHANGED <<raw, colspec, dup_policy, out1, out2, passed, pc, parts, slots, taxi_df, splits, loading, regressions>>

\* one pass of the loop of lines 127-142
worker_loop(k) ==
    /\ task[k].pc = "loop"
    /\ task[k].i <= Len(task[k].cols)
    /\ \E st \in {LoopBody(CallState(k), task[k].cols[task[k].i], colspec)} :
         /\ heap' = st.heap
         /\ task' = [task EXCEPT ![k] = [@ EXCEPT !.ddf = st.ddf, !.status = st.status,
                                                   !.i = @ + 1,
                                                   !.pc = IF st.status = "ok" THEN "loop"
                                                          ELSE "raised"]]
    /\ UNCHANGED <<raw, colspec, dup_policy, out1, out2, passed, pc, parts, slots, taxi_df, splits, loading, regressions>>

\* an outcome stored under the index of the first partition without one
StoreResult_completion_order(s, k, r) ==
    LET free == CHOOSE j \in DOMAIN s : s[j] = NoResult /\ \A x \in 1..(j - 1) : s[x] # NoResult
    IN  [s EXCEPT ![free] = r]

\* the scheduler keeps the outcome of a task under the key of its partition
StoreResult(s, k, r) ==
    [s EXCEPT ![k] = r]

\* line 144 (or the exception leaving clean): the task ends and the scheduler
\* receives its outcome
worker_return(k) ==
    /\ \/ task[k].pc = "loop" /\ task[k].i > Len(task[k].cols)
       \/ task[k].pc = "raised"
    /\ task' = [task EXCEPT ![k].pc = "done"]
    /\ slots' = StoreResult(slots, k, [status |-> task[k].status,
                                       ref |-> IF task[k].status = "ok" THEN task[k].ddf ELSE 0])
    /\ UNCHANGED <<heap, raw, colspec, dup_policy, out1, out2, passed, pc, parts, taxi_df, splits, loading, regressions>>

\* dask.dataframe.multi.concat: the partitions of the cleaned DataFrames, in
\* the order of the list; it is computed once every task has succeeded
concat ==
    /\ pc = "workers"
    /\ \A k \in DOMAIN slots : slots[k].status = "ok"
    /\ taxi_df' = [k \in DOMAIN slots |-> heap[slots[k].ref]]
    /\ pc' = "concatenated"
    /\ UNCHANGED <<heap, raw, colspec, dup_policy, out1, out2, passed, parts, task, slots, splits, loading, regressions>>

NextPar ==
    \/ \E k \in DOMAIN task : worker_normalize(k)
    \/ \E k \in DOMAIN task : worker_alias(k)
    \/ \E k \in DOMAIN task : worker_cast_pickup(k)
    \/ \E k \in DOMAIN task : worker_cast_dropoff(k)
    \/ \E k \in DOMAIN task : worker_loop(k)
    \/ \E k \in DOMAIN task : worker_return(k)
    \/ concat

SpecPar ==
    InitPar /\ [][NextPar]_vars

(***************************************************************************)
(* The filter on the cleaned records.                                      *)
(***************************************************************************)
\* a cell as the number the query compares: eighths for the numeric columns,
\* milliseconds for the timestamps
Number(col, r) ==
    IF HasInt(col.dtype) THEN col.vals[r].v * FloatUnit ELSE col.vals[r].v

\* the record in row r, by column name
Row(frame, r) ==
    [c \in NameSet(frame) |-> Number(GetItem(frame, c), r)]

\* the list of conditions without 'not dropoff_datetime <= pickup_datetime'
query_frags_without_order(x) ==
    << x[fare_amount] > 1 * FloatUnit /\ x[fare_amount] < 500 * FloatUnit,
       x[passenger_count] > 0 * FloatUnit /\ x[passenger_count] < 6 * FloatUnit,
       x[pickup_longitude] > (-75) * FloatUnit /\ x[pickup_longitude] < (-73) * FloatUnit,
       x[dropoff_longitude] > (-75) * FloatUnit /\ x[dropoff_longitude] < (-73) * FloatUnit,
       x[pickup_latitude] > 40 * FloatUnit /\ x[pickup_latitude] < 42 * FloatUnit,
       x[dropoff_latitude] > 40 * FloatUnit /\ x[dropoff_latitude] < 42 * FloatUnit,
       x[trip_distance] > 0 * FloatUnit /\ x[trip_distance] < 500 * FloatUnit,
       ~(x[trip_distance] > 50 * FloatUnit /\ x[fare_amount] < 50 * FloatUnit),
       ~(x[trip_distance] < 10 * FloatUnit /\ x[fare_amount] > 300 * FloatUnit) >>

\* the list of conditions without 'not (trip_distance < 10 and fare_amount > 300)'
query_frags_without_short_dear(x) ==
    << x[fare_amount] > 1 * FloatUnit /\ x[fare_amount] < 500 * FloatUnit,
       x[passenger_count] > 0 * FloatUnit /\ x[passenger_count] < 6 * FloatUnit,
       x[pickup_longitude] > (-75) * FloatUnit /\ x[pickup_longitude] < (-73) * FloatUnit,
       x[dropoff_longitude] > (-75) * FloatUnit /\ x[dropoff_longitude] < (-73) * FloatUnit,
       x[pickup_latitude] > 40 * FloatUnit /\ x[pickup_latitude] < 42 * FloatUnit,
       x[dropoff_latitude] > 40 * FloatUnit /\ x[dropoff_latitude] < 42 * FloatUnit,
       x[trip_distance] > 0 * FloatUnit /\ x[trip_distance] < 500 * FloatUnit,
       ~(x[trip_distance] > 50 * FloatUnit /\ x[fare_amount] < 50 * FloatUnit),
       ~(x[dropoff_datetime] <= x[pickup_datetime]) >>

\* query_frags, each condition evaluated on the record x
query_frags(x) ==
    << x[fare_amount] > 1 * FloatUnit /\ x[fare_amount] < 500 * FloatUnit,
       x[passenger_count] > 0 * FloatUnit /\ x[passenger_count] < 6 * FloatUnit,
       x[pickup_longitude] > (-75) * FloatUnit /\ x[pickup_longitude] < (-73) * FloatUnit,
       x[dropoff_longitude] > (-75) * FloatUnit /\ x[dropoff_longitude] < (-73) * FloatUnit,
       x[pickup_latitude] > 40 * FloatUnit /\ x[pickup_latitude] < 42 * FloatUnit,
       x[dropoff_latitude] > 40 * FloatUnit /\ x[dropoff_latitude] < 42 * FloatUnit,
       x[trip_distance] > 0 * FloatUnit /\ x[trip_distance] < 500 * FloatUnit,
       ~(x[trip_distance] > 50 * FloatUnit /\ x[fare_amount] < 50 * FloatUnit),
       ~(x[trip_distance] < 10 * FloatUnit /\ x[fare_amount] > 300 * FloatUnit),
       ~(x[dropoff_datetime] <= x[pickup_datetime]) >>

\* ' and '.join(query_frags) on the record x
QueryExpr(x) ==
    \A i \in DOMAIN query_frags(x) : query_frags(x)[i]

\* the entries of vals in the rows the mask keeps, from row r on
RECURSIVE Masked(_, _, _)
Masked(vals, mask, r) ==
    IF r > Len(vals) THEN <<>>
    ELSE (IF mask[r] THEN <<vals[r]>> ELSE <<>>) \o Masked(vals, mask, r + 1)

\* DataFrame.query(expr): a new frame with the rows on which expr holds
Query(frame) ==
    LET n == Len(frame[1].vals)
    IN  Bind([r \in 1..n |-> QueryExpr(Row(frame, r))],
             LAMBDA mask : [i \in 1..Len(frame) |->
                              [frame[i] EXCEPT !.vals = Masked(@, mask, 1)]])

\* the values a column of the taxi files may hold, in the dtype read_csv gives
\* it: a missing entry, ordinary values and values at the edges of the filter
QueryCells(c) ==
    CASE c = fare_amount ->
           {NA(0), Val(1 * FloatUnit), Val(100), Val(301 * FloatUnit), Val(500 * FloatUnit)}
      [] c = passenger_count ->
           {NA(Int64(0, 0)), Val(Int64(0, 0)), Val(Int64(0, 1)), Val(Int64(0, 6))}
      [] c = trip_distance ->
           {NA(0), Val(0), Val(5 * FloatUnit), Val(60 * FloatUnit), Val(500 * FloatUnit)}
      [] c = pickup_longitude ->
           {NA(0), Val((-75) * FloatUnit), Val((-74) * FloatUnit), Val((-73) * FloatUnit)}
      [] c = dropoff_longitude ->
           {NA(0), Val((-74) * FloatUnit), Val((-73) * FloatUnit)}
      [] c = pickup_latitude ->
           {NA(0), Val(40 * FloatUnit), Val(41 * FloatUnit), Val(42 * FloatUnit)}
      [] c = dropoff_latitude ->
           {NA(0), Val(41 * FloatUnit), Val(42 * FloatUnit)}
      [] c = rate_code ->
           {NA(Int64(0, 0)), Val(Int64(0, 1))}
      [] c = pickup_datetime ->
           {NA(<<>>), Val(text_00_00_07), Val(text_00_10_00)}
      [] c = dropoff_datetime ->
           {NA(<<>>), Val(text_00_00_07), Val(text_00_10_00)}

\* an ordinary trip, row r of a file: a record the filter keeps
OrdinaryCell(c, r) ==
    CASE c = fare_amount -> Val(100 + FloatUnit * r)
      [] c = passenger_count -> Val(Int64(0, 1))
      [] c = trip_distance -> Val(5 * FloatUnit)
      [] c \in {pickup_longitude, dropoff_longitude} -> Val((-74) * FloatUnit)
      [] c \in {pickup_latitude, dropoff_latitude} -> Val(41 * FloatUnit)
      [] c = rate_code -> Val(Int64(0, 1))
      [] c = pickup_datetime -> Val(text_00_00_07)
      [] c = dropoff_datetime -> Val(text_00_10_00)

\* a file of ordinary trips in which row r holds v1 in column c1 and v2 in
\* column c2
QueryBatch(r, c1, v1, c2, v2) ==
    [i \in 1..Len(must_haves) |->
       LET c == must_haves[i][1]
       IN  [name  |-> VintageName(2014, c),
            dtype |-> DefaultDtype(c),
            vals  |-> [k \in 1..MaxRows |->
                         IF k = r /\ c = c1 THEN v1
                         ELSE IF k = r /\ c = c2 THEN v2
                         ELSE OrdinaryCell(c, k)]]]

InitQuery ==
    /\ \E r \in 1..MaxRows, c1 \in Keys(must_haves), c2 \in Keys(must_haves) :
         \E v1 \in QueryCells(c1), v2 \in QueryCells(c2) :
           heap = <<QueryBatch(r, c1, v1, c2, v2)>>
    /\ InitWith(must_haves)

\* taxi_df = taxi_df.query(' and '.join(query_frags)), on one partition
query ==
    /\ pc = "cleaned"
    /\ out1.status = "ok"
    /\ taxi_df' = <<Query(heap[out1.ref])>>
    /\ pc' = "filtered"
    /\ UNCHANGED <<heap, raw, colspec, dup_policy, out1, out2, passed, parts, task, slots, splits, loading, regressions>>

NextQuery ==
    \/ map_partitions_clean
    \/ query

SpecQuery ==
    InitQuery /\ [][NextQuery]_vars

(***************************************************************************)
(* The features added to the filtered records (the date parts of the       *)
(* pickup time, is_weekend and the duration diff).                         *)
(***************************************************************************)
day ==
    <<"d","a","y">>
hour ==
    <<"h","o","u","r">>
year ==
    <<"y","e","a","r">>
month ==
    <<"m","o","n","t","h">>
day_of_week ==
    <<"d","a","y","_","o","f","_","w","e","e","k">>
is_weekend ==
    <<"i","s","_","w","e","e","k","e","n","d">>
diff ==
    <<"d","i","f","f">>

MsPerDay ==
    24 * 60 * 60 * 1000

FloorMod(a, b) ==
    a - b * FloorDiv(a, b)

\* the civil date [y, m, d] of a day counted from 1970-01-01
CivilDate(n) ==
    LET z == n + 719468
        era == FloorDiv(z, 146097)
        doe == z - era * 146097
        yoe == (doe - (doe \div 1460) + (doe \div 36524) - (doe \div 146096)) \div 365
        doy == doe - (365 * yoe + (yoe \div 4) - (yoe \div 100))
        mp == (5 * doy + 2) \div 153
        m == IF mp < 10 THEN mp + 3 ELSE mp - 9
    IN  [y |-> yoe + era * 400 + (IF m <= 2 THEN 1 ELSE 0),
         m |-> m,
         d |-> doy - ((153 * mp + 2) \div 5) + 1]

\* Series.dt.<field> of a datetime64[ms] column
DtField(col, name, F(_)) ==
    [name |-> name, dtype |-> "int16",
     vals |-> [r \in 1..Len(col.vals) |-> Val(F(col.vals[r].v))]]

dt_hour(ms) ==
    FloorMod(ms, MsPerDay) \div (60 * 60 * 1000)

dt_year(ms) ==
    CivilDate(FloorDiv(ms, MsPerDay)).y

dt_month(ms) ==
    CivilDate(FloorDiv(ms, MsPerDay)).m

dt_day(ms) ==
    CivilDate(FloorDiv(ms, MsPerDay)).d

\* Monday is 0; 1970-01-01 was a Thursday
dt_weekday(ms) ==
    FloorMod(FloorDiv(ms, MsPerDay) + 3, 7)

\* (taxi_df['day_of_week']>=5).astype('int32')
IsWeekendColumn(col) ==
    [name |-> is_weekend, dtype |-> "int32",
     vals |-> [r \in 1..Len(col.vals) |-> Val(IF col.vals[r].v >= 5 THEN 1 ELSE 0)]]

\* dropoff.astype('int64') - pickup.astype('int64'), then (diff/1000).astype('int64'):
\* the quotient truncated toward zero
DiffColumn(dropoff, pickup) ==
    [name |-> diff, dtype |-> "int64",
     vals |-> [r \in 1..Len(pickup.vals) |->
                 Val(Int64(0, TruncDiv(dropoff.vals[r].v - pickup.vals[r].v, 1000)))]]

\* lines 340-349 on one partition
AddFeatures(frame) ==
    Bind(GetItem(frame, pickup_datetime),
    LAMBDA pickup :
      Bind(SetItem(SetItem(SetItem(SetItem(SetItem(frame,
             hour, DtField(pickup, hour, dt_hour)),
             year, DtField(pickup, year, dt_year)),
             month, DtField(pickup, month, dt_month)),
             day, DtField(pickup, day, dt_day)),
             day_of_week, DtField(pickup, day_of_week, dt_weekday)),
      LAMBDA f1 :
        Bind(SetItem(f1, is_weekend, IsWeekendColumn(GetItem(f1, day_of_week))),
        LAMBDA f2 :
          SetItem(f2, diff, DiffColumn(GetItem(f2, dropoff_datetime),
                                       GetItem(f2, pickup_datetime))))))

\* the pickup and dropoff times of the cleaned data, in milliseconds: the
\* value of a missing time, times within a second and across days of the week
PickupTimes ==
    {-1, 7000, 2 * MsPerDay, 3 * MsPerDay + 1000, 4 * MsPerDay}

DropoffTimes ==
    {-1, 7500, 8000, 2 * MsPerDay + 999, 3 * MsPerDay + 1000, 4 * MsPerDay + 5000}

RECURSIVE TimesOf(_, _)
TimesOf(times, n) ==
    IF n = 0 THEN {<<>>}
    ELSE { Append(v, Val(x)) : v \in TimesOf(times, n - 1), x \in times }

\* a cleaned partition of ordinary trips with the given pickup and dropoff
\* times
CleanedBatch(pv, dv) ==
    [i \in 1..Len(must_haves) |->
       LET c == must_haves[i][1]
       IN  IF c = pickup_datetime
           THEN [name |-> c, dtype |-> "datetime64[ms]", vals |-> pv]
           ELSE IF c = dropoff_datetime
           THEN [name |-> c, dtype |-> "datetime64[ms]", vals |-> dv]
           ELSE [name  |-> c,
                 dtype |-> IF DefaultDtype(c) = "int64" THEN "int32" ELSE "float32",
                 vals  |-> [k \in 1..MaxRows |->
                              IF DefaultDtype(c) = "int64" THEN Val(1)
                              ELSE OrdinaryCell(c, k)]]]

\* the cleaned data in memory (line 233), one partition
InitFeatures ==
    /\ \E pv \in TimesOf(PickupTimes, MaxRows), dv \in TimesOf(DropoffTimes, MaxRows) :
         heap = <<CleanedBatch(pv, dv)>>
    /\ raw = 0
    /\ colspec = must_haves
    /\ dup_policy = "raise"
    /\ out1 = [status |-> "ok", ref |-> 1]
    /\ out2 = NoResult
    /\ passed = [ref |-> 0, frame |-> <<>>]
    /\ pc = "cleaned"
    /\ parts = <<>>
    /\ task = <<>>
    /\ slots = <<>>
    /\ taxi_df = <<>>
    /\ X_test = NoSplit
    /\ X_train = NoSplit
    /\ Y_train = NoSplit
    /\ Y_test = NoSplit
    /\ bucket = <<>>
    /\ dfs = <<>>
    /\ months = <<>>
    /\ valid_files = <<>>
    /\ runs = <<>>
    /\ NoRegressions

\* the statements of the cell "add features" that add the date parts,
\* is_weekend and diff; the statements after them (the rounded coordinates and
\* the removal of the two time columns) come later and change none of these
add_features ==
    /\ pc = "filtered"
    /\ taxi_df' = [k \in 1..Len(taxi_df) |-> AddFeatures(taxi_df[k])]
    /\ pc' = "featured"
    /\ UNCHANGED <<heap, raw, colspec, dup_policy, out1, out2, passed, parts, task, slots,
                   splits, loading, regressions>>

NextFeatures ==
    \/ query
    \/ add_features

SpecFeatures ==
    InitFeatures /\ [][NextFeatures]_vars

(***************************************************************************)
(* The test set: the records of the last days of the month, in the         *)
(* partitions of taxi_df that still hold a record.  Of the columns of      *)
(* taxi_df the model carries passenger_count, fare_amount, hour and day,   *)
(* in the order taxi_df has them.                                          *)
(***************************************************************************)
MaxParts ==
    3


\* the days on both sides of the split
Days ==
    {24, 25}

\* all sequences of at most n days
RECURSIVE DaysUpTo(_)
DaysUpTo(n) ==
    IF n = 0 THEN {<<>>}
    ELSE DaysUpTo(n - 1)
           \cup { Append(d, x) : d \in { y \in DaysUpTo(n - 1) : Len(y) = n - 1 }, x \in Days }

\* partition k of taxi_df, its records on the given days
TaxiPartition(k, days) ==
    << [name |-> passenger_count, dtype |-> "int32",
        vals |-> [r \in 1..Len(days) |-> Val(1)]],
       [name |-> fare_amount, dtype |-> "float32",
        vals |-> [r \in 1..Len(days) |-> Val(FloatUnit * (10 * k + r))]],
       [name |-> hour, dtype |-> "int16", vals |-> [r \in 1..Len(days) |-> Val(0)]],
       [name |-> day, dtype |-> "int16", vals |-> [r \in 1..Len(days) |-> Val(days[r])]] >>

\* all DataFrames of n partitions
RECURSIVE TaxiFrames(_)
TaxiFrames(n) ==
    IF n = 0 THEN {<<>>}
    ELSE { Append(f, TaxiPartition(n, d)) : f \in TaxiFrames(n - 1), d \in DaysUpTo(MaxRows) }

InitSplit ==
    /\ \E n \in 1..MaxParts : taxi_df \in TaxiFrames(n)
    /\ heap = <<>>
    /\ raw = 0
    /\ colspec = must_haves
    /\ dup_policy = "raise"
    /\ out1 = NoResult
    /\ out2 = NoResult
    /\ passed = [ref |-> 0, frame |-> <<>>]
    /\ pc = "features"
    /\ parts = <<>>
    /\ task = <<>>
    /\ slots = <<>>
    /\ X_test = NoSplit
    /\ X_train = NoSplit
    /\ Y_train = NoSplit
    /\ Y_test = NoSplit
    /\ bucket = <<>>
    /\ dfs = <<>>
    /\ months = <<>>
    /\ valid_files = <<>>
    /\ runs = <<>>
    /\ NoRegressions

\* a training query that takes the 25th as well
QueryTrainDays_upto_25(frame) ==
    Bind([r \in 1..Len(frame[1].vals) |-> GetItem(frame, day).vals[r].v <= 25],
         LAMBDA mask : [i \in 1..Len(frame) |->
                          [frame[i] EXCEPT !.vals = Masked(@, mask, 1)]])

\* DataFrame.query('day < 25') on one partition
QueryTrainDays(frame) ==
    Bind([r \in 1..Len(frame[1].vals) |-> GetItem(frame, day).vals[r].v < 25],
         LAMBDA mask : [i \in 1..Len(frame) |->
                          [frame[i] EXCEPT !.vals = Masked(@, mask, 1)]])

\* the rank of a character of a column name in the order of its code
CharOrder ==
    <<"_","a","b","c","d","e","f","g","h","i","j","k","l","m","n","o","p","q","r","s","t",
      "u","v","w","x","y","z">>

Ord(c) ==
    CHOOSE i \in 1..Len(CharOrder) : CharOrder[i] = c

\* a < b for two names, as strings compare
RECURSIVE NameLess(_, _)
NameLess(a, b) ==
    IF b = <<>> THEN FALSE
    ELSE IF a = <<>> THEN TRUE
    ELSE IF Head(a) # Head(b) THEN Ord(Head(a)) < Ord(Head(b))
    ELSE NameLess(Tail(a), Tail(b))

\* the names of a set in ascending order
Sorted(names) ==
    LET at(i) == CHOOSE n \in names : Cardinality({ m \in names : NameLess(m, n) }) = i - 1
    IN  [i \in 1..Cardinality(names) |-> at(i)]

\* a difference that keeps the names it should leave out
Difference_nothing(cols, other) ==
    Sorted({ cols[i] : i \in 1..Len(cols) })

\* Index.difference(other): the names of cols not in other, sorted
Difference(cols, other) ==
    Sorted({ cols[i] : i \in 1..Len(cols) } \ { other[i] : i \in 1..Len(other) })

\* df[names]: the columns of the list, in the order of the list
Select(frame, names) ==
    [i \in 1..Len(names) |-> GetItem(frame, names[i])]

\* X_train = taxi_df.query('day < 25')
query_train ==
    /\ pc = "features"
    /\ X_train' = [status |-> "ok",
                   parts |-> [k \in 1..Len(taxi_df) |-> QueryTrainDays(taxi_df[k])]]
    /\ pc' = "X_train_rows"
    /\ UNCHANGED <<heap, raw, colspec, dup_policy, out1, out2, passed, parts, task, slots,
                   taxi_df, X_test, Y_train, Y_test, loading, regressions>>

\* Y_train = X_train[['fare_amount']].persist()
select_Y_train ==
    /\ pc = "X_train_rows"
    /\ Y_train' = [status |-> "ok",
                   parts |-> [k \in 1..Len(X_train.parts) |->
                                Select(X_train.parts[k], <<fare_amount>>)]]
    /\ pc' = "Y_train"
    /\ UNCHANGED <<heap, raw, colspec, dup_policy, out1, out2, passed, parts, task, slots,
                   taxi_df, X_test, X_train, Y_test, loading, regressions>>

\* X_train = X_train[X_train.columns.difference(['fare_amount'])].persist()
select_X_train ==
    /\ pc = "Y_train"
    /\ X_train' = [status |-> "ok",
                   parts |-> [k \in 1..Len(X_train.parts) |->
                                Select(X_train.parts[k],
                                       Difference(ColumnNames(X_train.parts[k]),
                                                  <<fare_amount>>))]]
    /\ pc' = "trained"
    /\ UNCHANGED <<heap, raw, colspec, dup_policy, out1, out2, passed, parts, task, slots,
                   taxi_df, X_test, Y_train, Y_test, loading, regressions>>

\* DataFrame.query('day >= 25') on one partition
QueryTestDays(frame) ==
    Bind([r \in 1..Len(frame[1].vals) |-> GetItem(frame, day).vals[r].v >= 25],
         LAMBDA mask : [i \in 1..Len(frame) |->
                          [frame[i] EXCEPT !.vals = Masked(@, mask, 1)]])

\* X_test = taxi_df.query('day >= 25').persist()
query_test ==
    /\ pc = "trained"
    /\ X_test' = [status |-> "ok",
                  parts |-> [k \in 1..Len(taxi_df) |-> QueryTestDays(taxi_df[k])]]
    /\ pc' = "split"
    /\ UNCHANGED <<heap, raw, colspec, dup_policy, out1, out2, passed, parts, task, slots,
                   taxi_df, X_train, Y_train, Y_test, loading, regressions>>

\* df.partitions[mask] for a list of booleans: the mask becomes the list of
\* the indices it selects; the new divisions are taken from the selected
\* keys and the key selected last, so a mask that selects nothing raises
PartitionsGetItem(ps, mask) ==
    LET index == Masked([k \in 1..Len(ps) |-> k], mask, 1)
    IN  IF index = <<>>
        THEN [status |-> "IndexError", parts |-> <<>>]
        ELSE [status |-> "ok", parts |-> [i \in 1..Len(index) |-> ps[index[i]]]]

\* drop_empty_partitions(df)
drop_empty_partitions(ps) ==
    LET lengths == [k \in 1..Len(ps) |-> Len(ps[k][1].vals)]
        nonempty == [k \in 1..Len(lengths) |-> lengths[k] > 0]
    IN  PartitionsGetItem(ps, nonempty)

\* X_test = drop_empty_partitions(X_test)
drop_empty ==
    /\ pc = "split"
    /\ X_test' = drop_empty_partitions(X_test.parts)
    /\ pc' = "dropped"
    /\ UNCHANGED <<heap, raw, colspec, dup_policy, out1, out2, passed, parts, task, slots,
                   taxi_df, X_train, Y_train, Y_test, loading, regressions>>

\* Y_test = X_test[['fare_amount']].persist()
select_Y_test ==
    /\ pc = "dropped"
    /\ X_test.status = "ok"
    /\ Y_test' = [status |-> "ok",
                  parts |-> [k \in 1..Len(X_test.parts) |->
                               Select(X_test.parts[k], <<fare_amount>>)]]
    /\ pc' = "Y_test"
    /\ UNCHANGED <<heap, raw, colspec, dup_policy, out1, out2, passed, parts, task, slots,
                   taxi_df, X_test, X_train, Y_train, loading, regressions>>

\* X_test = X_test[X_test.columns.difference(['fare_amount'])]
select_X_test ==
    /\ pc = "Y_test"
    /\ X_test' = [status |-> "ok",
                  parts |-> [k \in 1..Len(X_test.parts) |->
                               Select(X_test.parts[k],
                                      Difference(ColumnNames(X_test.parts[k]),
                                                 <<fare_amount>>))]]
    /\ pc' = "X_test"
    /\ UNCHANGED <<heap, raw, colspec, dup_policy, out1, out2, passed, parts, task, slots,
                   taxi_df, X_train, Y_train, Y_test, loading, regressions>>

NextSplit ==
    \/ query_train
    \/ select_Y_train
    \/ select_X_train
    \/ query_test
    \/ drop_empty
    \/ select_Y_test
    \/ select_X_test

SpecSplit ==
    InitSplit /\ [][NextSplit]_vars

(***************************************************************************)
(* The loading of the three years: the reads, the list of the 2016 files,  *)
(* the concatenation and the persist that runs the cleaning tasks.         *)
(***************************************************************************)
base_path ==
    <<"/","r","a","i","d","/","d","a","t","a","s","e","t","s","/","n","y","c","_","t","a","x","i","_","d","e","m","o","/","c","s","v","/">>

Years ==
    {2014, 2015, 2016}

\* the two digits of a month, as the file names carry them
MonthDigits ==
    << <<"0","1">>, <<"0","2">>, <<"0","3">>, <<"0","4">>, <<"0","5">>, <<"0","6">>,
       <<"0","7">>, <<"0","8">>, <<"0","9">>, <<"1","0">>, <<"1","1">>, <<"1","2">> >>

YearDigits(y) ==
    <<"2","0","1">> \o Str(y - 2010)

\* the path of the file of a month on disk
FileName(y, m) ==
    base_path \o YearDigits(y) \o <<"/","y","e","l","l","o","w","_","t","r","i","p","d","a","t","a","_">> \o YearDigits(y)
      \o <<"-">> \o MonthDigits[m] \o <<".","c","s","v">>

\* the numbers of files the directory of 2014 or 2015 may hold
YearFiles ==
    {1, 2}

\* the files of a year on disk, n of them, the first at reference first
Directory(y, n, first) ==
    [m \in 1..n |-> [name |-> FileName(y, m), ref |-> first + m - 1]]

\* the disk: 2014 and 2015 with n14 and n15 files, 2016 with its twelve, and
\* the frame read_csv makes of each file (one partition a file)
InitLoad ==
    /\ \E n14 \in YearFiles, n15 \in YearFiles, e \in {"none", "flag"} :
         /\ bucket = [y \in Years |->
                        CASE y = 2014 -> Directory(2014, n14, 1)
                          [] y = 2015 -> Directory(2015, n15, n14 + 1)
                          [] y = 2016 -> Directory(2016, 12, n14 + n15 + 1)]
         /\ heap = [r \in 1..(n14 + n15 + 12) |->
                      IF r <= n14 THEN PartitionBatch(2014, e, r)
                      ELSE IF r <= n14 + n15 THEN PartitionBatch(2015, "none", r)
                      ELSE PartitionBatch(2016, "none", r)]
    /\ dfs = [y \in Years |-> <<>>]
    /\ months = <<>>
    /\ valid_files = <<>>
    /\ runs = <<>>
    /\ NoRegressions
    /\ raw = 0
    /\ colspec = must_haves
    /\ dup_policy = "raise"
    /\ out1 = NoResult
    /\ out2 = NoResult
    /\ passed = [ref |-> 0, frame |-> <<>>]
    /\ pc = "disk"
    /\ parts = <<>>
    /\ task = <<>>
    /\ slots = <<>>
    /\ taxi_df = <<>>
    /\ X_test = NoSplit
    /\ X_train = NoSplit
    /\ Y_train = NoSplit
    /\ Y_test = NoSplit

\* dask_cudf.read_csv(base_path+'<year>/yellow_*.csv'): the files of the year
ReadGlob(y) ==
    [i \in 1..Len(bucket[y]) |-> bucket[y][i].ref]

\* dask_cudf.read_csv(list of paths): the listed files, in the order listed
ReadList(y, paths) ==
    [i \in 1..Len(paths) |->
       bucket[y][CHOOSE j \in 1..Len(bucket[y]) : bucket[y][j].name = paths[i]].ref]

\* lines 65 and 160
read_2014 ==
    /\ pc = "disk"
    /\ dfs' = [dfs EXCEPT ![2014] = ReadGlob(2014)]
    /\ pc' = "df_2014"
    /\ UNCHANGED <<heap, raw, colspec, dup_policy, out1, out2, passed, parts, task, slots,
                   taxi_df, splits, bucket, months, valid_files, runs,
                   regressions>>

\* lines 176 and 185
read_2015 ==
    /\ pc = "df_2014"
    /\ dfs' = [dfs EXCEPT ![2015] = ReadGlob(2015)]
    /\ pc' = "months"
    /\ UNCHANGED <<heap, raw, colspec, dup_policy, out1, out2, passed, parts, task, slots,
                   taxi_df, splits, bucket, months, valid_files, runs,
                   regressions>>

\* range(a, b)
Range(a, b) ==
    [i \in 1..(b - a) |-> a + i - 1]

\* an rjust that does not pad
rjust_unpadded(t, width, fill) ==
    t

\* str.rjust(width, fill)
rjust(t, width, fill) ==
    IF Len(t) >= width THEN t ELSE [i \in 1..(width - Len(t)) |-> fill] \o t

\* one pass of the comprehension of line 210
months_next ==
    /\ pc = "months"
    /\ Len(months) < Len(Range(1, 7))
    /\ months' = Append(months, rjust(Str(Range(1, 7)[Len(months) + 1]), 2, "0"))
    /\ pc' = IF Len(months') = Len(Range(1, 7)) THEN "valid_files" ELSE "months"
    /\ UNCHANGED <<heap, raw, colspec, dup_policy, out1, out2, passed, parts, task, slots,
                   taxi_df, splits, bucket, dfs, valid_files, runs,
                   regressions>>

\* one pass of the comprehension of line 211
valid_files_next ==
    /\ pc = "valid_files"
    /\ Len(valid_files) < Len(months)
    /\ valid_files' = Append(valid_files,
                             base_path \o <<"2","0","1","6","/","y","e","l","l","o","w","_","t","r","i","p","d","a","t","a","_","2","0","1","6","-">>
                               \o months[Len(valid_files) + 1] \o <<".","c","s","v">>)
    /\ pc' = IF Len(valid_files') = Len(months) THEN "listed" ELSE "valid_files"
    /\ UNCHANGED <<heap, raw, colspec, dup_policy, out1, out2, passed, parts, task, slots,
                   taxi_df, splits, bucket, dfs, months, runs,
                   regressions>>

\* line 221
read_2016 ==
    /\ pc = "listed"
    /\ dfs' = [dfs EXCEPT ![2016] = ReadList(2016, valid_files)]
    /\ pc' = "df_2016"
    /\ UNCHANGED <<heap, raw, colspec, dup_policy, out1, out2, passed, parts, task, slots,
                   taxi_df, splits, bucket, months, valid_files, runs,
                   regressions>>

\* a list that names df_2015 twice and leaves df_2016 out
ConcatList_2015_twice ==
    <<2014, 2015, 2015>>

\* [df_2014, df_2015, df_2016]
ConcatList ==
    <<2014, 2015, 2016>>

\* line 224: taxi_df has the partitions of the three DataFrames, each the
\* clean task of a partition read; nothing has run yet
concat_years ==
    /\ pc = "df_2016"
    /\ parts' = dfs[ConcatList[1]] \o dfs[ConcatList[2]] \o dfs[ConcatList[3]]
    /\ taxi_df' = [k \in 1..Len(parts') |-> <<>>]
    /\ runs' = [k \in 1..Len(parts') |-> 0]
    /\ pc' = "persisting"
    /\ UNCHANGED <<heap, raw, colspec, dup_policy, out1, out2, passed, task, slots,
                   splits, bucket, dfs, months, valid_files,
                   regressions>>

\* line 233: a worker runs the clean task of a partition that has no result
persist_partition(k) ==
    /\ pc = "persisting"
    /\ taxi_df[k] = <<>>
    /\ \E st \in {clean(<<heap[parts[k]]>>, 1, colspec, dup_policy)} :
         /\ st.status = "ok"
         /\ taxi_df' = [taxi_df EXCEPT ![k] = st.heap[st.ddf]]
    /\ runs' = [runs EXCEPT ![k] = @ + 1]
    /\ UNCHANGED <<heap, raw, colspec, dup_policy, out1, out2, passed, pc, parts, task,
                   slots, splits, bucket, dfs, months, valid_files,
                   regressions>>

\* line 234: wait returns when every partition is in memory
wait_persisted ==
    /\ pc = "persisting"
    /\ \A k \in 1..Len(taxi_df) : taxi_df[k] # <<>>
    /\ pc' = "persisted"
    /\ UNCHANGED <<heap, raw, colspec, dup_policy, out1, out2, passed, parts, task, slots,
                   taxi_df, splits, loading, regressions>>

NextLoad ==
    \/ read_2014
    \/ read_2015
    \/ months_next
    \/ valid_files_next
    \/ read_2016
    \/ concat_years
    \/ \E k \in 1..Len(taxi_df) : persist_partition(k)
    \/ wait_persisted

SpecLoad ==
    InitLoad /\ [][NextLoad]_vars

(***************************************************************************)
(* The Dask delayed example of the introduction to Dask: one regression    *)
(* per pair of feature columns, built as delayed calls and computed at     *)
(* once.                                                                   *)
(***************************************************************************)
\* the number of feature columns the model goes up to
MaxCols == 5

\* the number of feature columns of the notebook
ncols ==
    50

target_col ==
    <<"y">>

\* f"x{i}"
FeatureName(i) ==
    <<"x">> \o Str(i)

\* the columns of df: x0 .. x(n-1), then y
Columns(n) ==
    [i \in 1..n + 1 |-> IF i <= n THEN FeatureName(i - 1) ELSE target_col]

\* Index.drop(label)
ColumnsDrop(cols, label) ==
    SelectSeq(cols, LAMBDA c : c # label)

RECURSIVE permutations(_, _, _)
RECURSIVE combinations(_, _, _)
\* itertools.permutations(pool, 2) from the positions (i, j) on: every ordered
\* pair of two positions
permutations(pool, i, j) ==
    IF i > Len(pool) THEN <<>>
    ELSE LET js == SelectSeq([k \in 1..Len(pool) - j + 1 |-> j + k - 1], LAMBDA q : q # i)
         IN  [k \in 1..Len(js) |-> <<pool[i], pool[js[k]]>>] \o permutations(pool, i + 1, 1)

\* itertools.combinations(pool, 2) from the positions (i, j) on: the pairs of
\* positions i < j in lexicographic order
combinations(pool, i, j) ==
    IF i >= Len(pool) THEN <<>>
    ELSE [k \in 1..Len(pool) - j + 1 |-> <<pool[i], pool[j + k - 1]>>]
           \o combinations(pool, i + 1, i + 2)

\* what fit_ols returns: the feature columns and the regression of the target
\* on them (its coefficients stand for what was regressed on what)
fit_ols(data, feature_cols) ==
    [feature_cols |-> feature_cols,
     coef_ |-> [X |-> SelectSeq(data, LAMBDA c : c = feature_cols[1] \/ c = feature_cols[2]),
                Y |-> SelectSeq(data, LAMBDA c : c = target_col)]]

NotComputed ==
    [feature_cols |-> <<>>, coef_ |-> <<>>]

\* the DataFrame after the set-up cell
InitDelayed ==
    /\ \E n \in 2..MaxCols : df = Columns(n)
    /\ feature_combinations = <<>>
    /\ results = <<>>
    /\ computed = <<>>
    /\ res = <<>>
    /\ pc = "data"
    /\ heap = <<>>
    /\ raw = 0
    /\ colspec = must_haves
    /\ dup_policy = "raise"
    /\ out1 = NoResult
    /\ out2 = NoResult
    /\ passed = [ref |-> 0, frame |-> <<>>]
    /\ parts = <<>>
    /\ task = <<>>
    /\ slots = <<>>
    /\ taxi_df = <<>>
    /\ X_test = NoSplit
    /\ X_train = NoSplit
    /\ Y_train = NoSplit
    /\ Y_test = NoSplit
    /\ bucket = <<>>
    /\ dfs = <<>>
    /\ months = <<>>
    /\ valid_files = <<>>
    /\ runs = <<>>

\* the state of the taxi notebook
Untouched ==
    <<heap, raw, colspec, dup_policy, out1, out2, passed, cluster, splits, loading>>

\* feature_combinations = list(combinations(df.columns.drop("y"), 2))
make_feature_combinations ==
    /\ pc = "data"
    /\ feature_combinations' = combinations(ColumnsDrop(df, target_col), 1, 2)
    /\ pc' = "combinations"
    /\ UNCHANGED <<df, results, computed, res, Untouched>>

\* one round of the loop: a delayed call of fit_ols, under a key of its own,
\* appended to results
append_delayed ==
    /\ pc = "combinations"
    /\ Len(results) < Len(feature_combinations)
    /\ results' = Append(results, [key |-> Len(results) + 1,
                                   feature_cols |-> feature_combinations[Len(results) + 1]])
    /\ UNCHANGED <<df, feature_combinations, computed, res, pc, Untouched>>

\* dask.compute(results) hands every delayed call to the scheduler
compute_submit ==
    /\ pc = "combinations"
    /\ Len(results) = Len(feature_combinations)
    /\ computed' = [k \in 1..Len(results) |-> NotComputed]
    /\ pc' = "computing"
    /\ UNCHANGED <<df, feature_combinations, results, res, Untouched>>

\* a worker runs one of the calls not run yet, whichever
run_fit_ols(k) ==
    /\ pc = "computing"
    /\ computed[k] = NotComputed
    /\ computed' = [computed EXCEPT ![k] = fit_ols(df, results[k].feature_cols)]
    /\ UNCHANGED <<df, feature_combinations, results, res, pc, Untouched>>

\* the results a completed computation hands back: those of the calls in the
\* order of the list that was passed, each found by its key
Gather(calls, done) ==
    [i \in 1..Len(calls) |-> done[calls[i].key]]

\* res = dask.compute(results); res = res[0]
compute_gather ==
    /\ pc = "computing"
    /\ \A k \in 1..Len(computed) : computed[k] # NotComputed
    /\ res' = Gather(results, computed)
    /\ pc' = "computed"
    /\ UNCHANGED <<df, feature_combinations, results, computed, Untouched>>

NextDelayed ==
    \/ make_feature_combinations
    \/ append_delayed
    \/ compute_submit
    \/ \E k \in 1..Len(computed) : run_fit_ols(k)
    \/ compute_gather

SpecDelayed ==
    InitDelayed /\ [][NextDelayed]_vars

(***************************************************************************)
(* Properties of clean.                                                    *)
(***************************************************************************)
\* the aliases the notebook's text and the claims name, by canonical name
KnownAliases ==
    (tpep_pickup_datetime :> pickup_datetime)
      @@ (tpep_dropoff_datetime :> dropoff_datetime)
      @@ (ratecodeid :> rate_code)

\* the canonical name a raw column name stands for
CanonicalOf(name) ==
    LET n == lower(strip(name))
    IN  IF n \in DOMAIN KnownAliases THEN KnownAliases[n] ELSE n

\* two columns of the frame stand for the same canonical name
NamesClash(frame) ==
    Cardinality({ CanonicalOf(frame[i].name) : i \in 1..Len(frame) }) # Len(frame)

\* the call of clean on the raw batch has returned or raised
Called ==
    pc # "read"

Returned1 ==
    Called /\ out1.status = "ok"

\* every key of the ColumnSpec is the resolved name of some column
HasEveryCanonical(frame, mh) ==
    Keys(mh) \subseteq { CanonicalOf(frame[i].name) : i \in 1..Len(frame) }

\* the column is text and holds a present cell that does not parse as a number
MalformedNumber(col) ==
    /\ col.dtype = "object"
    /\ \E i \in 1..Len(col.vals) : ~col.vals[i].na /\ ~ParseFloat(col.vals[i].v).ok

\* C1: for a raw batch that has every key of must_haves, directly or under an
\* alias and in any casing and padding, clean never raises a KeyError, and the
\* set of column names of the batch it returns is exactly the key set.
C1_ColumnSetIsKeySet ==
    (Called /\ HasEveryCanonical(heap[raw], must_haves))
      => /\ out1.status # "KeyError"
         /\ out1.status = "ok" => NameSet(heap[out1.ref]) = Keys(must_haves)

\* a 2015 file (tpep_ and RateCodeID aliases) with a padded, re-cased column
\* and an extra one has been cleaned
C1_Witness ==
    /\ Returned1
    /\ HasEveryCanonical(heap[raw], must_haves)
    /\ raw_RateCodeID \in NameSet(heap[raw])
    /\ Title(tpep_pickup_datetime) \o <<" ">> \in NameSet(heap[raw])
    /\ raw_store_and_fwd_flag \in NameSet(heap[raw])
    /\ NameSet(heap[out1.ref]) = Keys(must_haves)

\* the frames clean has returned
Outputs ==
    (IF Returned1 THEN {heap[out1.ref]} ELSE {})
      \cup (IF pc = "recleaned" /\ out2.status = "ok" THEN {heap[out2.ref]} ELSE {})

\* the raw columns that come to the name of an output column
SourcesOf(frame, name) ==
    { i \in 1..Len(frame) : CanonicalOf(frame[i].name) = name }

\* C3: no batch returned by clean holds a missing entry in any column, and an
\* entry that was missing in the raw batch holds the sentinel -1 of its dtype.
C3_NoMissingEntries ==
    /\ \A out \in Outputs : \A c \in 1..Len(out) : \A i \in 1..Len(out[c].vals) :
         ~out[c].vals[i].na
    /\ Returned1 =>
         \A c \in 1..Len(heap[out1.ref]) :
           LET oc == heap[out1.ref][c]
               src == SourcesOf(heap[raw], oc.name)
           IN  Cardinality(src) = 1 =>
                 \A s \in src : \A i \in 1..Len(oc.vals) :
                   heap[raw][s].vals[i].na => oc.vals[i].v = MinusOne(oc.dtype)

\* a batch with a missing entry in a text, an integer, a float or a timestamp
\* column has been cleaned
C3_Witness ==
    /\ Returned1
    /\ \E c \in 1..Len(heap[raw]) :
         /\ CanonicalOf(heap[raw][c].name) \in Keys(colspec)
         /\ heap[raw][c].dtype \in {"int64", "datetime64[ns]"}
         /\ heap[raw][c].vals[1].na

\* C5: clean applied to its own output returns, and returns a batch equal to
\* that output in column names, order, dtypes and every value.
C5_Idempotent ==
    pc = "recleaned" => /\ out2.status = "ok"
                        /\ heap[out2.ref] = heap[out1.ref]

\* the output of a batch that needed renaming, dropping, parsing and filling
\* has been cleaned again
C5_Witness ==
    /\ pc = "recleaned"
    /\ out2.status = "ok"
    /\ heap[out1.ref] # heap[raw]
    /\ Len(heap[out1.ref]) < Len(heap[raw])
    /\ \E c \in 1..Len(heap[raw]) : heap[raw][c].dtype = "datetime64[ns]"

\* C6: clean leaves the frame it was passed as it was, whether it returns or
\* raises.
C6_ArgumentNotMutated ==
    Called => heap[passed.ref] = passed.frame

\* clean has returned a batch that differs from the one it was passed
C6_Witness ==
    /\ pc = "cleaned"
    /\ out1.status = "ok"
    /\ passed.ref = raw
    /\ heap[out1.ref] # passed.frame

\* the names and dtypes of a frame
Schema(frame) ==
    { <<frame[i].name, frame[i].dtype>> : i \in 1..Len(frame) }

\* the schema of a cleaned ordinary 2014 file
ReferenceSchema ==
    Bind(RawBatch(2014, fare_amount,
                  <<DefaultColumn(fare_amount, fare_amount, MaxRows)>>, "none"),
         LAMBDA b : Bind(clean(<<b>>, 1, must_haves, "raise"),
                         LAMBDA st : Schema(st.heap[st.ddf])))

\* C2: every batch clean returns has the same column set and the same dtype
\* for each column as every other batch it returns (here: as the cleaned
\* ordinary 2014 file), whatever the native dtypes of the raw batch; stated
\* for the raw batches that have every required column.
C2_SameSchemaForEveryOutput ==
    HasEveryCanonical(heap[raw], must_haves)
      => \A out \in Outputs : Schema(out) = ReferenceSchema

\* C4: when the raw batch lacks a key of the ColumnSpec and no alias of it is
\* there, clean raises and returns no batch.
C4_MissingColumnRaises ==
    (Called /\ ~HasEveryCanonical(heap[raw], colspec)) => out1.status # "ok"

\* the columns of the raw batch that the ColumnSpec does not ask for
Unneeded(frame, mh) ==
    { i \in 1..Len(frame) : CanonicalOf(frame[i].name) \notin Keys(mh) }

\* C7: a column of the raw batch whose normalized, alias-resolved name is not
\* a key of must_haves is not in the output under any of its names, and clean
\* ends as it does on the batch without these columns: dropping raises nothing.
C7_UnneededColumnsDropped ==
    LET un == Unneeded(heap[raw], colspec)
    IN  /\ Returned1 =>
             \A i \in un :
               /\ heap[raw][i].name \notin NameSet(heap[out1.ref])
               /\ lower(strip(heap[raw][i].name)) \notin NameSet(heap[out1.ref])
               /\ CanonicalOf(heap[raw][i].name) \notin NameSet(heap[out1.ref])
        /\ (pc = "cleaned" /\ un # {}) =>
             \A needed \in { SelectSeq(heap[raw],
                                       LAMBDA c : CanonicalOf(c.name) \in Keys(colspec)) } :
               \A st \in { clean(<<needed>>, 1, colspec, dup_policy) } :
                 /\ st.status = out1.status
                 /\ st.status = "ok" => st.heap[st.ddf] = heap[out1.ref]

\* a batch with the store_and_fwd_flag column has been cleaned
C7_Witness ==
    /\ Returned1
    /\ Unneeded(heap[raw], colspec) # {}
    /\ Len(heap[out1.ref]) = Len(heap[raw]) - 1

\* the other spelling of a name that has an alias or is one, its padding kept
SwapSpelling(name) ==
    LET n == lower(strip(name))
        keep == { i \in 1..Len(name) : name[i] \notin Whitespace }
        lo == CHOOSE i \in keep : \A j \in keep : i <= j
        hi == CHOOSE i \in keep : \A j \in keep : j <= i
        other == IF n \in DOMAIN KnownAliases THEN KnownAliases[n]
                 ELSE CHOOSE a \in DOMAIN KnownAliases : KnownAliases[a] = n
    IN  SubSeq(name, 1, lo - 1) \o other \o SubSeq(name, hi + 1, Len(name))

\* the columns spelled as an alias or as a name that has one
Swappable(frame) ==
    { i \in 1..Len(frame) :
        LET n == lower(strip(frame[i].name))
        IN  n \in DOMAIN KnownAliases \/ \E a \in DOMAIN KnownAliases : KnownAliases[a] = n }

\* C8: a raw batch and the batch that differs from it only in spelling one
\* column by the other of its known names (tpep_pickup_datetime for
\* pickup_datetime, tpep_dropoff_datetime for dropoff_datetime, ratecodeid for
\* rate_code, or back) give outputs with the same column names, in the same
\* order; unless two columns of the batch come to one name, clean returns for
\* both or raises the same error for both.
C8_AliasSameNames ==
    pc = "cleaned" =>
      \A i \in Swappable(heap[raw]) :
        \A twin \in { [heap[raw] EXCEPT ![i].name = SwapSpelling(@)] } :
          \A st \in { clean(<<twin>>, 1, colspec, dup_policy) } :
            /\ ~NamesClash(heap[raw]) => st.status = out1.status
            /\ (st.status = "ok" /\ out1.status = "ok")
                 => ColumnNames(st.heap[st.ddf]) = ColumnNames(heap[out1.ref])

\* a batch with alias spellings has been cleaned, and so its twins
C8_Witness ==
    /\ pc = "cleaned"
    /\ out1.status = "ok"
    /\ Cardinality(Swappable(heap[raw])) = 3
    /\ \E i \in Swappable(heap[raw]) : lower(strip(heap[raw][i].name)) = ratecodeid
    /\ \E i \in Swappable(heap[raw]) : lower(strip(heap[raw][i].name)) = pickup_datetime

\* C9 (Scenario A): a batch with exactly the columns 'Tpep_Pickup_Datetime '
\* and 'passenger_count', well-formed, cleaned against a ColumnSpec that asks
\* for pickup_datetime and passenger_count only, comes back with exactly the
\* columns pickup_datetime and passenger_count.
C9_ScenarioA ==
    ( /\ Called
      /\ colspec = ScenarioA_ColumnSpec
      /\ NameSet(heap[raw]) = {Title(tpep_pickup_datetime) \o <<" ">>, passenger_count}
      /\ \A c \in 1..Len(heap[raw]) : \A i \in 1..Len(heap[raw][c].vals) :
           LET col == heap[raw][c]
           IN  (col.dtype = "object" /\ ~col.vals[i].na) =>
                 IF IsTimestampName(CanonicalOf(col.name))
                 THEN ParseTimestamp(col.vals[i].v).ok
                 ELSE ParseFloat(col.vals[i].v).ok )
      => /\ out1.status = "ok"
         /\ NameSet(heap[out1.ref]) = {pickup_datetime, passenger_count}

\* C10: when a text column that clean retains (the only column of its
\* resolved name, a key that is not a timestamp) holds a present value that
\* does not parse as a number, clean returns no batch; it raises the
\* ValueError of the cast unless the batch fails earlier for its names.
C10_MalformedTextRaises ==
    Called =>
      \A c \in 1..Len(heap[raw]) :
        LET col == heap[raw][c]
        IN  ( /\ CanonicalOf(col.name) \in Keys(colspec)
              /\ ~IsTimestampName(CanonicalOf(col.name))
              /\ Cardinality(SourcesOf(heap[raw], CanonicalOf(col.name))) = 1
              /\ MalformedNumber(col) )
            => /\ out1.status # "ok"
               /\ ( /\ {pickup_datetime, dropoff_datetime}
                         \subseteq { CanonicalOf(heap[raw][j].name) : j \in 1..Len(heap[raw]) }
                    /\ ~NamesClash(heap[raw]) )
                  => out1.status = "ValueError"

\* a batch with the text '12.5.3' beside a missing entry in a retained column
\* has been passed to clean, which raised
C10_Witness ==
    /\ pc = "cleaned"
    /\ out1.status = "ValueError"
    /\ \E c \in 1..Len(heap[raw]) :
         /\ CanonicalOf(heap[raw][c].name) = fare_amount
         /\ heap[raw][c].dtype = "object"
         /\ heap[raw][c].vals[1].na
         /\ heap[raw][c].vals[2] = Val(text_12_5_3)

(***************************************************************************)
(* Properties of the conversions.                                          *)
(***************************************************************************)
\* the number a text of the files denotes, in eighths, as float32 holds it
NumberOfText ==
    (text_12_5 :> 100) @@ (text_9_0 :> 72) @@ (text_minus_1 :> -8)
      @@ (text_16777217 :> 134217728)

\* the raw columns that were read as text and are kept
TextSources ==
    { i \in 1..Len(heap[raw]) :
        /\ heap[raw][i].dtype = "object"
        /\ CanonicalOf(heap[raw][i].name) \in TextColumns }

C12_TextCastToDeclaredType ==
    Returned1 =>
      \A i \in TextSources :
        LET c == CanonicalOf(heap[raw][i].name)
        IN  GetItem(heap[out1.ref], c).dtype = Lookup(colspec, c)

\* the retained columns of the raw batch that read_csv gave a numeric dtype
NumericSources ==
    { i \in 1..Len(heap[raw]) :
        /\ heap[raw][i].dtype \in {"int64", "float64"}
        /\ CanonicalOf(heap[raw][i].name) \in Keys(colspec)
        /\ ~IsTimestampName(CanonicalOf(heap[raw][i].name))
        /\ Cardinality(SourcesOf(heap[raw], CanonicalOf(heap[raw][i].name))) = 1 }

\* a 64-bit number of the files as the narrower type holds it: the low 32
\* bits of an integer, the nearest float32 of a float (in eighths)
Narrowed(dtype, v) ==
    IF dtype = "int64" THEN v.lo
    ELSE IF v = 134217736 THEN 134217728 ELSE v

\* C16: a retained column that is already numeric is narrowed, int64 to int32
\* and float64 to float32, and its missing entries become -1; no row is
\* dropped or moved: the output has the rows of the input, in their order
C16_NumericNarrowedRowsKept ==
    Returned1 =>
      /\ \A c \in 1..Len(heap[out1.ref]) :
            Len(heap[out1.ref][c].vals) = Len(heap[raw][1].vals)
      /\ \A i \in NumericSources :
            LET src == heap[raw][i]
                got == GetItem(heap[out1.ref], CanonicalOf(src.name))
            IN  /\ got.dtype = (IF src.dtype = "int64" THEN "int32" ELSE "float32")
                /\ Len(got.vals) = Len(src.vals)
                /\ \A r \in 1..Len(src.vals) :
                      /\ ~got.vals[r].na
                      /\ got.vals[r].v =
                           IF src.vals[r].na
                           THEN (IF src.dtype = "int64" THEN -1 ELSE -8)
                           ELSE Narrowed(src.dtype, src.vals[r].v)

\* an int64 column [missing, 2^32 + 5] came out as the int32 column [-1, 5]
C16_Witness ==
    /\ Returned1
    /\ \E i \in NumericSources :
         /\ heap[raw][i].dtype = "int64"
         /\ heap[raw][i].vals[1].na
         /\ heap[raw][i].vals[2] = Val(Int64(1, 5))
         /\ SubSeq(GetItem(heap[out1.ref], CanonicalOf(heap[raw][i].name)).vals, 1, 2)
              = <<Val(-1), Val(5)>>

\* the columns of the raw batch that are spelled as a variant of an alias
AliasSpelled ==
    { i \in 1..Len(heap[raw]) : lower(strip(heap[raw][i].name)) \in DOMAIN KnownAliases }

\* C17: names are normalized before aliases are resolved, so a column spelled
\* as any casing and padding of an alias comes out under the canonical name:
\* 'RateCodeID', 'RatecodeID' and ' tpep_pickup_datetime ' come out as
\* rate_code, rate_code and pickup_datetime
C17_AliasVariantsResolve ==
    Called =>
      /\ out1.status = "ok"
      /\ \A i \in AliasSpelled :
            LET c == KnownAliases[lower(strip(heap[raw][i].name))]
            IN  /\ c \in NameSet(heap[out1.ref])
                /\ heap[raw][i].name \notin NameSet(heap[out1.ref])
                /\ lower(strip(heap[raw][i].name)) \notin NameSet(heap[out1.ref])
                /\ Len(GetItem(heap[out1.ref], c).vals) = Len(heap[raw][i].vals)

\* a batch with the columns 'RateCodeID' and ' tpep_pickup_datetime ' has
\* been cleaned and holds rate_code and pickup_datetime
C17_Witness ==
    /\ Returned1
    /\ raw_RateCodeID \in NameSet(heap[raw])
    /\ (<<" ">> \o tpep_pickup_datetime \o <<" ">>) \in NameSet(heap[raw])
    /\ {rate_code, pickup_datetime} \subseteq NameSet(heap[out1.ref])

(***************************************************************************)
(* Properties of the cleaning of partitions on the cluster.                *)
(***************************************************************************)
\* the outcomes of clean for the partitions when they are cleaned one after
\* another by calls of their own
OneAfterAnother ==
    [k \in 1..Len(parts) |->
       Bind(clean(<<heap[parts[k]]>>, 1, colspec, dup_policy),
            LAMBDA st : [status |-> st.status,
                         frame |-> IF st.status = "ok" THEN st.heap[st.ddf] ELSE <<>>])]

\* the outcome of every finished task, and the concatenated DataFrame, are
\* those of the calls made one after another
SameAsOneAfterAnother ==
    \A seq \in {OneAfterAnother} :
      /\ \A k \in DOMAIN slots :
            slots[k] # NoResult =>
              /\ slots[k].status = seq[k].status
              /\ slots[k].status = "ok" => heap[slots[k].ref] = seq[k].frame
      /\ pc = "concatenated" => taxi_df = [k \in DOMAIN seq |-> seq[k].frame]

\* a step of a task changes neither another task, nor the frame another task
\* holds, nor a partition; an outcome is stored only by the task that ends,
\* under its own index
StepsAreLocal ==
    \A k \in DOMAIN task :
      task'[k] # task[k] =>
        /\ \A j \in DOMAIN task \ {k} :
              /\ task'[j] = task[j]
              /\ heap'[task[j].ddf] = heap[task[j].ddf]
              /\ slots'[j] = slots[j]
        /\ \A j \in DOMAIN parts : heap'[parts[j]] = heap[parts[j]]
        /\ slots'[k] # slots[k] => task'[k].pc = "done"

\* C14: when workers clean the partitions concurrently, in any interleaving
\* and completion order, the calls share no mutable state, each outcome goes
\* to the slot of its own partition only, and the concatenated result is the
\* one obtained by cleaning the partitions one after another
C14_ConcurrentAsSequential ==
    []SameAsOneAfterAnother /\ [][StepsAreLocal]_vars

\* the DataFrames were concatenated after a run in which the task of the
\* second partition allocated its result before the task of the first
C14_Witness ==
    /\ pc = "concatenated"
    /\ slots[2].ref < slots[1].ref
    /\ taxi_df[1] # taxi_df[2]

(***************************************************************************)
(* Properties of the failure policy.                                       *)
(***************************************************************************)
\* a retained column read as text holds a present entry that is not the text
\* of a value of its kind
Unparsable(col) ==
    /\ col.dtype = "object"
    /\ CanonicalOf(col.name) \in Keys(colspec)
    /\ \E i \in 1..Len(col.vals) :
         /\ ~col.vals[i].na
         /\ IF IsTimestampName(CanonicalOf(col.name))
            THEN ~ParseTimestamp(col.vals[i].v).ok
            ELSE ~ParseFloat(col.vals[i].v).ok

\* the batch has every canonical column and no text that fails to convert
Recoverable(frame) ==
    /\ HasEveryCanonical(frame, colspec)
    /\ \A c \in 1..Len(frame) : ~Unparsable(frame[c])

\* C15: padded or re-cased column names, extra columns of any name and
\* missing values never make clean raise: a batch that contains all canonical
\* columns is cleaned successfully whatever else it carries
C15_RecoverableNeverRaises ==
    (Called /\ Recoverable(heap[raw])) => out1.status = "ok"

(***************************************************************************)
(* Properties of the filter.                                               *)
(***************************************************************************)
\* the cleaned partition and the partition the filter made of it
Cleaned ==
    heap[out1.ref]

Filtered ==
    taxi_df[1]

\* the entry of column c in row r of the frame, in eighths when the column is
\* numeric and in milliseconds when it is a timestamp
Entry(frame, c, r) ==
    LET col == GetItem(frame, c)
    IN  IF col.dtype \in {"int32", "int64"} THEN 8 * col.vals[r].v ELSE col.vals[r].v

\* C18: the filter throws out every record with a missing value: after clean
\* and the filter, no retained record holds the sentinel -1 in any of the ten
\* must_haves columns, rate_code and the two timestamps included
C18_NoSentinelRetained ==
    pc = "filtered" =>
      \A c \in Keys(must_haves) :
        \A r \in 1..Len(GetItem(Filtered, c).vals) :
          Entry(Filtered, c, r) # (IF IsTimestampName(c) THEN -1 ELSE -8)

\* the ten conditions on the record in row r of the cleaned partition
AllTenHold(r) ==
    LET fare == Entry(Cleaned, fare_amount, r)
        dist == Entry(Cleaned, trip_distance, r)
        between(c, lo, hi) == 8 * lo < Entry(Cleaned, c, r) /\ Entry(Cleaned, c, r) < 8 * hi
    IN  /\ between(fare_amount, 1, 500)
        /\ between(passenger_count, 0, 6)
        /\ between(pickup_longitude, -75, -73)
        /\ between(dropoff_longitude, -75, -73)
        /\ between(pickup_latitude, 40, 42)
        /\ between(dropoff_latitude, 40, 42)
        /\ between(trip_distance, 0, 500)
        /\ ~(dist > 8 * 50 /\ fare < 8 * 50)
        /\ ~(dist < 8 * 10 /\ fare > 8 * 300)
        /\ Entry(Cleaned, dropoff_datetime, r) > Entry(Cleaned, pickup_datetime, r)

\* the rows of the cleaned partition on which the ten conditions hold, and
\* the i-th of them
RowsThatHold ==
    { r \in 1..Len(Cleaned[1].vals) : AllTenHold(r) }

NthThatHolds(i) ==
    CHOOSE r \in RowsThatHold : Cardinality({ x \in RowsThatHold : x <= r }) = i

\* C19: a record is retained by the filter exactly when all ten conditions
\* hold for it (1 < fare_amount < 500, 0 < passenger_count < 6, longitudes
\* between -75 and -73, latitudes between 40 and 42, 0 < trip_distance < 500,
\* not a long trip for a low fare, not a short trip for a high fare, dropoff
\* after pickup), and the filter changes no value of a retained record
C19_RetainedIffAllTenHold ==
    pc = "filtered" =>
      /\ Len(Filtered) = Len(Cleaned)
      /\ \A c \in 1..Len(Cleaned) :
            /\ Filtered[c].name = Cleaned[c].name
            /\ Filtered[c].dtype = Cleaned[c].dtype
            /\ Filtered[c].vals = [i \in 1..Cardinality(RowsThatHold) |->
                                     Cleaned[c].vals[NthThatHolds(i)]]

\* a partition with a trip of 5 miles for a fare of 301 has been filtered:
\* that record is gone and the others are retained
C19_Witness ==
    /\ pc = "filtered"
    /\ \E r \in 1..Len(Cleaned[1].vals) :
         /\ Entry(Cleaned, trip_distance, r) = 40
         /\ Entry(Cleaned, fare_amount, r) = 2408
         /\ ~AllTenHold(r)
    /\ Len(Filtered[1].vals) = Len(Cleaned[1].vals) - 1
    /\ Len(Filtered[1].vals) > 0

(***************************************************************************)
(* Properties of the test set.                                             *)
(***************************************************************************)
\* the partitions with at least one row, in their order
WithRows(ps) ==
    SelectSeq(ps, LAMBDA p : Len(p[1].vals) >= 1)

\* C20: drop_empty_partitions returns exactly the partitions of its input
\* that have at least one row, in their original order; the result has no
\* empty partition and holds the same rows as the input
C20_NonEmptyPartitionsReturned ==
    [][(pc = "split" /\ pc' = "dropped")
         => /\ X_test'.status = "ok"
            /\ X_test'.parts = WithRows(X_test.parts)]_vars

\* the records of a list of partitions, each the pair of its day and its
\* fare, the day read in days and the fare in fares
RECURSIVE RecordsFrom(_, _, _)
RecordsFrom(days, fares, k) ==
    IF k > Len(days) THEN <<>>
    ELSE [r \in 1..Len(GetItem(days[k], day).vals) |->
            <<GetItem(days[k], day).vals[r].v, GetItem(fares[k], fare_amount).vals[r].v>>]
           \o RecordsFrom(days, fares, k + 1)

TaxiRecords ==
    RecordsFrom(taxi_df, taxi_df, 1)

TrainRecords ==
    RecordsFrom(X_train.parts, Y_train.parts, 1)

TestRecords ==
    RecordsFrom(X_test.parts, X_test.parts, 1)

\* C21: the split is a partition of the dataset: every record of taxi_df is
\* in exactly one of the training set (day < 25) and the test set
\* (day >= 25), and dropping the empty partitions of the test set removes no
\* record
C21_SplitIsPartition ==
    pc \in {"split", "dropped"} =>
      /\ TrainRecords = SelectSeq(TaxiRecords, LAMBDA x : x[1] <= 24)
      /\ TestRecords = SelectSeq(TaxiRecords, LAMBDA x : x[1] >= 25)
      /\ Len(TrainRecords) + Len(TestRecords) = Len(TaxiRecords)
      /\ \A i \in 1..Len(TrainRecords), j \in 1..Len(TestRecords) :
            TrainRecords[i] # TestRecords[j]

\* a dataset with records on both sides of the 25th has been split and an
\* empty partition of the test set has been dropped
C21_Witness ==
    /\ pc = "dropped"
    /\ X_test.status = "ok"
    /\ Len(X_test.parts) < Len(taxi_df)
    /\ Len(TrainRecords) > 0
    /\ Len(TestRecords) > 0

\* the partitions of Y hold fare_amount only, one row for each row of the
\* partition of X at the same place
TargetOf(X, Y) ==
    /\ Len(Y.parts) = Len(X.parts)
    /\ \A k \in 1..Len(Y.parts) :
          /\ ColumnNames(Y.parts[k]) = <<fare_amount>>
          /\ Len(Y.parts[k][1].vals) = Len(X.parts[k][1].vals)

\* C22: X_train and X_test have the same feature columns in the same order
\* and neither contains fare_amount; Y_train and Y_test contain only
\* fare_amount and have one row for each row of X_train and X_test, in the
\* same order
C22_FeaturesAndTargets ==
    pc = "X_test" =>
      /\ \A k \in 1..Len(X_train.parts), j \in 1..Len(X_test.parts) :
            /\ ColumnNames(X_train.parts[k]) = ColumnNames(X_test.parts[j])
            /\ fare_amount \notin NameSet(X_train.parts[k])
            /\ fare_amount \notin NameSet(X_test.parts[j])
      /\ TargetOf(X_train, Y_train)
      /\ TargetOf(X_test, Y_test)
      /\ TrainRecords = SelectSeq(TaxiRecords, LAMBDA x : x[1] <= 24)
      /\ RecordsFrom(X_test.parts, Y_test.parts, 1)
           = SelectSeq(TaxiRecords, LAMBDA x : x[1] >= 25)

\* both sets have been made of a dataset with records on both sides
C22_Witness ==
    /\ pc = "X_test"
    /\ Len(TrainRecords) > 1
    /\ Len(RecordsFrom(X_test.parts, Y_test.parts, 1)) > 1
    /\ Len(X_test.parts[1]) = 3

(***************************************************************************)
(* Properties of the cleaned datasets.                                     *)
(***************************************************************************)
\* C23: the schema passed as meta to map_partitions (the names and dtypes of
\* must_haves, the timestamps declared datetime64[s]) is the schema of every
\* batch clean returns
C23_MetaIsActualSchema ==
    Returned1 =>
      { <<heap[out1.ref][c].name, heap[out1.ref][c].dtype>> : c \in 1..Len(heap[out1.ref]) }
        = { must_haves[i] : i \in 1..Len(must_haves) }

\* C24: after normalization and alias resolution the column names of the
\* batch are pairwise distinct, also when the raw batch carries a canonical
\* column beside one of its aliases or two names that differ only in case or
\* whitespace: the renaming goes through, and each canonical column of the
\* output comes from exactly one input column
C24_ResolvedNamesDistinct ==
    Called =>
      /\ out1.status # "DuplicateNames"
      /\ Returned1 =>
            /\ Cardinality(NameSet(heap[out1.ref])) = Len(heap[out1.ref])
            /\ \A c \in 1..Len(heap[out1.ref]) :
                  \E i \in 1..Len(heap[raw]) :
                    /\ CanonicalOf(heap[raw][i].name) = heap[out1.ref][c].name
                    /\ Len(heap[raw][i].vals) = Len(heap[out1.ref][c].vals)

\* the lists months and valid_files are complete
Listed ==
    pc \in {"listed", "df_2016", "persisting", "persisted"}

\* C25: valid_files lists exactly the six 2016 files of January to June, the
\* month numbers zero-padded 01..06 and ascending, and no file of July to
\* December
C25_ValidFilesJanuaryToJune ==
    Listed =>
      /\ months = << <<"0","1">>, <<"0","2">>, <<"0","3">>, <<"0","4">>, <<"0","5">>,
                     <<"0","6">> >>
      /\ valid_files = [m \in 1..6 |-> FileName(2016, m)]
      /\ \A m \in 7..12 : \A i \in 1..Len(valid_files) : valid_files[i] # FileName(2016, m)

\* the list has been built and the six files it names have been read
C25_Witness ==
    /\ pc = "df_2016"
    /\ Len(valid_files) = 6
    /\ dfs[2016] = [m \in 1..6 |-> bucket[2016][m].ref]

\* the files of the three years that are to be loaded: all of 2014 and 2015,
\* January to June of 2016
FilesToLoad ==
    { bucket[2014][i].ref : i \in 1..Len(bucket[2014]) }
      \cup { bucket[2015][i].ref : i \in 1..Len(bucket[2015]) }
      \cup { bucket[2016][i].ref : i \in 1..6 }

\* the fares of a list of frames, one after another
RECURSIVE FaresOf(_, _)
FaresOf(frames, k) ==
    IF k > Len(frames) THEN <<>>
    ELSE [r \in 1..Len(GetItem(frames[k], fare_amount).vals) |->
            GetItem(frames[k], fare_amount).vals[r].v] \o FaresOf(frames, k + 1)

\* C26: taxi_df, the concatenation of the cleaned 2014, 2015 and 2016
\* datasets, holds every cleaned record of the three years exactly once, and
\* each raw batch is cleaned exactly once
C26_EveryRecordOnce ==
    /\ \A k \in 1..Len(runs) : runs[k] <= 1
    /\ pc = "persisted" =>
         /\ Len(parts) = Cardinality(FilesToLoad)
         /\ { parts[k] : k \in 1..Len(parts) } = FilesToLoad
         /\ \A k \in 1..Len(taxi_df) :
               /\ runs[k] = 1
               /\ \A st \in {clean(<<heap[parts[k]]>>, 1, colspec, dup_policy)} :
                     taxi_df[k] = st.heap[st.ddf]
         /\ \A fares \in {FaresOf(taxi_df, 1)} :
               /\ Len(fares) = MaxRows * Cardinality(FilesToLoad)
               /\ \A i \in 1..Len(fares), j \in 1..Len(fares) :
                     i # j => fares[i] # fares[j]

\* the three years have been loaded: taxi_df holds the partitions of 2014 and
\* 2015 and the six of 2016
C26_Witness ==
    /\ pc = "persisted"
    /\ Len(taxi_df) = Len(bucket[2014]) + Len(bucket[2015]) + 6
    /\ Len(bucket[2014]) > 1

(***************************************************************************)
(* Properties of the features.                                             *)
(***************************************************************************)
\* C27: for every record the filter retains, the feature diff (dropoff minus
\* pickup, divided by 1000 and truncated to an integer) is not negative, and
\* is_weekend is 1 exactly when day_of_week is 5 or 6, and 0 otherwise
C27_DiffAndWeekend ==
    pc = "featured" =>
      \A r \in 1..Len(Filtered[1].vals) :
        LET dow == GetItem(Filtered, day_of_week).vals[r].v
            gap == GetItem(Filtered, dropoff_datetime).vals[r].v
                     - GetItem(Filtered, pickup_datetime).vals[r].v
            secs == GetItem(Filtered, diff).vals[r].v.lo
        IN  /\ secs >= 0
            /\ 1000 * secs <= gap
            /\ gap < 1000 * (secs + 1)
            /\ dow \in 0..6
            /\ GetItem(Filtered, is_weekend).vals[r].v = (IF dow \in {5, 6} THEN 1 ELSE 0)

\* features have been added to a partition with a trip of less than a second
\* on a weekday and a trip on a weekend
C27_Witness ==
    /\ pc = "featured"
    /\ \E r \in 1..Len(Filtered[1].vals) :
         /\ GetItem(Filtered, diff).vals[r].v.lo = 0
         /\ GetItem(Filtered, is_weekend).vals[r].v = 0
    /\ \E r \in 1..Len(Filtered[1].vals) :
         /\ GetItem(Filtered, is_weekend).vals[r].v = 1
         /\ GetItem(Filtered, diff).vals[r].v.lo > 0

(***************************************************************************)
(* Properties of the delayed regressions.                                  *)
(***************************************************************************)
\* the feature columns of df
FeatureColumns ==
    { df[i] : i \in { j \in 1..Len(df) : df[j] # target_col } }

\* C28: one regression task is created for each unordered pair of distinct
\* feature columns (the target y excluded; 50 features give 1225 tasks), no
\* pair is submitted twice, and the i-th computed result belongs to the i-th
\* entry of feature_combinations
C28_OneTaskPerPair ==
    /\ Len(combinations(ColumnsDrop(Columns(ncols), target_col), 1, 2)) = 1225
    /\ pc = "computed" =>
         /\ 2 * Len(results) = Cardinality(FeatureColumns) * (Cardinality(FeatureColumns) - 1)
         /\ \A i \in 1..Len(results) :
              /\ results[i].feature_cols[1] \in FeatureColumns
              /\ results[i].feature_cols[2] \in FeatureColumns
              /\ results[i].feature_cols[1] # results[i].feature_cols[2]
         /\ \A a, b \in FeatureColumns :
              a # b => \E i \in 1..Len(results) :
                         {results[i].feature_cols[1], results[i].feature_cols[2]} = {a, b}
         /\ \A i, j \in 1..Len(results) :
              i # j => {results[i].feature_cols[1], results[i].feature_cols[2]}
                         # {results[j].feature_cols[1], results[j].feature_cols[2]}
         /\ Len(res) = Len(feature_combinations)
         /\ \A i \in 1..Len(res) : res[i].feature_cols = feature_combinations[i]

\* the regressions of four or more features, six or more tasks, have been
\* computed
C28_Witness ==
    /\ pc = "computed"
    /\ Cardinality(FeatureColumns) >= 4
    /\ Len(res) >= 6
    /\ res[6].feature_cols = <<FeatureName(2), FeatureName(3)>>

(***************************************************************************)
(* Properties of the loop of clean.                                        *)
(***************************************************************************)
\* the resolved names of the raw batch that the ColumnSpec asks for
AskedFor ==
    { CanonicalOf(heap[raw][i].name) : i \in 1..Len(heap[raw]) } \cap Keys(colspec)

\* the dtype the loop leaves a column of the normalized batch with: a text
\* column is made float32, an integer column int32, a float column float32,
\* and a column of times keeps the dtype it has when the loop starts
CoercedDtype(name, dtype) ==
    IF name \in {pickup_datetime, dropoff_datetime} THEN "datetime64[ms]"
    ELSE IF dtype \in {"object", "float64", "float32"} THEN "float32"
    ELSE IF dtype \in {"int64", "int32"} THEN "int32"
    ELSE dtype

\* C29: the loop of clean visits every column of the normalized batch exactly
\* once although it drops columns and rebinds the batch while it iterates: no
\* column is skipped, so every column not in must_haves is dropped and every
\* column in must_haves is coerced
C29_LoopVisitsEveryColumn ==
    Returned1 =>
      /\ { heap[out1.ref][j].name : j \in 1..Len(heap[out1.ref]) } = AskedFor
      /\ Len(heap[out1.ref]) = Cardinality(AskedFor)
      /\ \A j \in 1..Len(heap[out1.ref]) :
            /\ \E i \in 1..Len(heap[raw]) :
                  /\ CanonicalOf(heap[raw][i].name) = heap[out1.ref][j].name
                  /\ heap[out1.ref][j].dtype
                       = CoercedDtype(heap[out1.ref][j].name, heap[raw][i].dtype)
            /\ \A r \in 1..Len(heap[out1.ref][j].vals) : ~heap[out1.ref][j].vals[r].na

\* clean has returned for a batch whose first column is not asked for and
\* whose second column is, read with a missing entry
C29_Witness ==
    /\ Returned1
    /\ CanonicalOf(heap[raw][1].name) \notin Keys(colspec)
    /\ CanonicalOf(heap[raw][2].name) \in Keys(colspec)
    /\ \E r \in 1..Len(heap[raw][2].vals) : heap[raw][2].vals[r].na
    /\ Len(heap[out1.ref]) = Len(heap[raw]) - 1

====